---- MODULE Spec2Model ----
(***************************************************************************)
(* Model of the marketing calculator backend: the pure calculators of      *)
(* utils/totals (toBase, computeCalculator, computeInvoiceTotals) and the  *)
(* receipt / invoice controllers with their per-user sequence numbering    *)
(* on top of a record store with a unique (userId, number) index.          *)
(***************************************************************************)
EXTENDS Integers, Sequences, FiniteSets, Bags, TLC

(***************************************************************************)
(* JavaScript numbers.  A number is a fraction [n, d] in lowest terms with *)
(* d >= 0; d = 0 encodes the non-finite values: 1/0 is Infinity, -1/0 is   *)
(* -Infinity and 0/0 is NaN.                                               *)
(***************************************************************************)
Abs(i) == IF i < 0 THEN -i ELSE i

Sgn(i) == IF i < 0 THEN -1 ELSE IF i > 0 THEN 1 ELSE 0

RECURSIVE GCD(_, _)
GCD(a, b) == IF b = 0 THEN a ELSE GCD(b, a % b)

Frac(n, d) ==
    IF d = 0 THEN [n |-> Sgn(n), d |-> 0]
    ELSE LET g == GCD(Abs(n), Abs(d))
         IN  [n |-> (Sgn(d) * n) \div g, d |-> Abs(d) \div g]

Num(i) == [n |-> i, d |-> 1]

NaN == [n |-> 0, d |-> 0]

isNaN(x) == x.d = 0 /\ x.n = 0

isFinite(x) == x.d # 0

\* The sum over the least common denominator, which keeps the integers small.
Plus(a, b) ==
    IF a.d = 0 /\ b.d = 0 THEN (IF a.n = b.n THEN a ELSE NaN)
    ELSE IF a.d = 0 THEN a
    ELSE IF b.d = 0 THEN b
    ELSE LET g == GCD(a.d, b.d)
         IN  Frac(a.n * (b.d \div g) + b.n * (a.d \div g), (a.d \div g) * b.d)

Neg(a) == [n |-> -a.n, d |-> a.d]

Minus(a, b) == Plus(a, Neg(b))

\* The product with the common factors taken out first, which keeps the integers small.
Times(a, b) ==
    IF a.d = 0 \/ b.d = 0 THEN Frac(a.n * b.n, 0)
    ELSE LET g1 == GCD(Abs(a.n), b.d)
             g2 == GCD(Abs(b.n), a.d)
         IN  Frac((a.n \div g1) * (b.n \div g2), (a.d \div g2) * (b.d \div g1))

Over(a, b) ==
    IF b.n = 0 /\ b.d # 0 THEN Frac(a.n, 0)
    ELSE Times(a, [n |-> Sgn(b.n) * b.d, d |-> Abs(b.n)])

Less(a, b) ==
    IF isNaN(a) \/ isNaN(b) THEN FALSE
    ELSE IF a.d = 0 /\ b.d = 0 THEN a.n < b.n
    ELSE a.n * b.d < b.n * a.d

\* Faulty variant: > written as >=.
Greater_orEqual(a, b) == Less(b, a) \/ (~isNaN(a) /\ a = b)

Greater(a, b) == Less(b, a)

MathMax(a, b) ==
    IF isNaN(a) \/ isNaN(b) THEN NaN
    ELSE IF Less(a, b) THEN b ELSE a

\* A field the request left out (undefined).
Undefined == [undefined |-> TRUE]

\* The null of a decoded JSON text.
JsonNull == [null |-> TRUE]

\* x || 0 : undefined, null, NaN and 0 are falsy.
OrZero(x) ==
    IF x = Undefined \/ x = JsonNull THEN Num(0)
    ELSE IF isNaN(x) \/ x = Num(0) THEN Num(0) ELSE x

\* Number.isFinite(x): false for undefined and null as for the non-finite numbers.
NumberIsFinite(x) == x # Undefined /\ x # JsonNull /\ isFinite(x)

\* Faulty variant: a withholding rate of 10%.
WITHHOLDING_RATE_tenth == Frac(10, 100)

WITHHOLDING_RATE == Frac(2, 100)

\* Faulty variant: the required revenue priced as if nothing were withheld.
NET_REVENUE_SHARE_whole == Num(1)

NET_REVENUE_SHARE == Minus(Num(1), WITHHOLDING_RATE)

Hundred == Num(100)

\* curr is "NGN", "USD" or "undefined".
\* Faulty variant: multiplication and division exchanged.
toBase_swapped(amount, curr, base, usdRate) ==
    LET a    == IF NumberIsFinite(amount) THEN amount ELSE Num(0)
        rate == IF NumberIsFinite(usdRate) /\ Greater(usdRate, Num(0)) THEN usdRate ELSE Num(1)
    IN  IF curr = "undefined" THEN a
        ELSE IF base = "NGN" THEN (IF curr = "NGN" THEN a ELSE Over(a, rate))
        ELSE (IF curr = "USD" THEN a ELSE Times(a, rate))

\* Faulty variant: the rate used as it comes, without the substitution of 1.
toBase_rawRate(amount, curr, base, usdRate) ==
    LET a == IF NumberIsFinite(amount) THEN amount ELSE Num(0)
    IN  IF curr = "undefined" THEN a
        ELSE IF base = "NGN" THEN (IF curr = "NGN" THEN a ELSE Times(a, usdRate))
        ELSE (IF curr = "USD" THEN a ELSE Over(a, usdRate))

\* export function toBase(amount, curr, base, usdRate)
toBase(amount, curr, base, usdRate) ==
    LET a    == IF NumberIsFinite(amount) THEN amount ELSE Num(0)
        rate == IF NumberIsFinite(usdRate) /\ Greater(usdRate, Num(0)) THEN usdRate ELSE Num(1)
    IN  IF curr = "undefined" THEN a
        ELSE IF base = "NGN" THEN (IF curr = "NGN" THEN a ELSE Times(a, rate))
        ELSE (IF curr = "USD" THEN a ELSE Over(a, rate))

RECURSIVE SumOver_fromOne(_, _)
\* Faulty variant: the reduction started at 1, not at 0.
SumOver_fromOne(seq, field) ==
    IF seq = <<>> THEN Num(1)
    ELSE Plus(SumOver_fromOne(SubSeq(seq, 1, Len(seq) - 1), field), seq[Len(seq)][field])

RECURSIVE SumOver(_, _)
\* seq.reduce((s, i) => s + i[field], 0)
SumOver(seq, field) ==
    IF seq = <<>> THEN Num(0)
    ELSE Plus(SumOver(SubSeq(seq, 1, Len(seq) - 1), field), seq[Len(seq)][field])

RECURSIVE SumSeq(_)
\* seq.reduce((a, b) => a + b, 0)
SumSeq(seq) ==
    IF seq = <<>> THEN Num(0)
    ELSE Plus(SumSeq(SubSeq(seq, 1, Len(seq) - 1)), seq[Len(seq)])

\* Faulty variant: the quantity taken as it comes, not clamped at 0.
ProductLine_unclamped(p) ==
    LET qty                == OrZero(p.quantity)
        revenue            == Times(OrZero(p.unitSellPrice), qty)
        supplierCost       == Times(OrZero(p.unitSupplierCost), qty)
        productionOverhead == Times(OrZero(p.unitProductionOverhead), qty)
    IN  [productId          |-> p.id,
         name               |-> IF p.name \in {"undefined", ""} THEN "Product" ELSE p.name,
         quantity           |-> qty,
         revenue            |-> revenue,
         supplierCost       |-> supplierCost,
         productionOverhead |-> productionOverhead,
         grossProfit        |-> Minus(Minus(revenue, supplierCost), productionOverhead)]

\* products.map(p => ...)
ProductLine(p) ==
    LET qty                == MathMax(Num(0), OrZero(p.quantity))
        revenue            == Times(OrZero(p.unitSellPrice), qty)
        supplierCost       == Times(OrZero(p.unitSupplierCost), qty)
        productionOverhead == Times(OrZero(p.unitProductionOverhead), qty)
    IN  [productId          |-> p.id,
         name               |-> IF p.name \in {"undefined", ""} THEN "Product" ELSE p.name,
         quantity           |-> qty,
         revenue            |-> revenue,
         supplierCost       |-> supplierCost,
         productionOverhead |-> productionOverhead,
         grossProfit        |-> Minus(Minus(revenue, supplierCost), productionOverhead)]

\* Faulty variant: an amount extra counted once whatever its allocation.
ExtraValue_oncePerOrder(extra, revenue, totalQuantity, baseCurrency, usdRate) ==
    IF extra.kind = "percent"
    THEN Times(revenue, Over(MathMax(Num(0), OrZero(extra.percent)), Hundred))
    ELSE toBase(MathMax(Num(0), OrZero(extra.amount)), extra.currency, baseCurrency, usdRate)

\* Faulty variant: a per-unit percent extra multiplied by the quantity as an amount is.
ExtraValue_percentPerUnit(extra, revenue, totalQuantity, baseCurrency, usdRate) ==
    LET multiplier == IF Greater(totalQuantity, Num(0)) THEN totalQuantity ELSE Num(0)
        value == IF extra.kind = "percent"
                 THEN Times(revenue, Over(MathMax(Num(0), OrZero(extra.percent)), Hundred))
                 ELSE toBase(MathMax(Num(0), OrZero(extra.amount)), extra.currency,
                             baseCurrency, usdRate)
    IN  IF extra.allocation = "per-order" THEN value ELSE Times(value, multiplier)

\* extras.map(extra => ...)
ExtraValue(extra, revenue, totalQuantity, baseCurrency, usdRate) ==
    IF extra.kind = "percent"
    THEN Times(revenue, Over(MathMax(Num(0), OrZero(extra.percent)), Hundred))
    ELSE LET asBase == toBase(MathMax(Num(0), OrZero(extra.amount)), extra.currency,
                              baseCurrency, usdRate)
             multiplier == IF Greater(totalQuantity, Num(0)) THEN totalQuantity ELSE Num(0)
         IN  IF extra.allocation = "per-order" THEN asBase ELSE Times(asBase, multiplier)

computeCalculator(input) ==
    LET productBreakdown == [i \in 1..Len(input.products) |-> ProductLine(input.products[i])]
        revenue       == SumOver(productBreakdown, "revenue")
        supplier      == SumOver(productBreakdown, "supplierCost")
        prodOverhead  == SumOver(productBreakdown, "productionOverhead")
        totalQuantity == SumOver(productBreakdown, "quantity")
        extraTotals   == [i \in 1..Len(input.extras) |->
                            ExtraValue(input.extras[i], revenue, totalQuantity,
                                       input.baseCurrency, input.usdRate)]
        extrasTotal   == SumSeq(extraTotals)
        productionCost == Plus(Plus(supplier, prodOverhead), extrasTotal)
        withholdingTax == IF Greater(revenue, Num(0)) THEN Times(revenue, WITHHOLDING_RATE)
                          ELSE Num(0)
        netRevenue    == MathMax(Minus(revenue, withholdingTax), Num(0))
        grossProfit   == Minus(netRevenue, productionCost)
        marginPct     == IF Greater(netRevenue, Num(0))
                         THEN Times(Over(grossProfit, netRevenue), Hundred) ELSE Num(0)
        profitPerUnit == IF Greater(totalQuantity, Num(0))
                         THEN Over(grossProfit, totalQuantity) ELSE Num(0)
        netRevenuePerUnit == IF Greater(totalQuantity, Num(0))
                             THEN Over(netRevenue, totalQuantity) ELSE Num(0)
        targetMargin  == Over(MathMax(Num(0), OrZero(input.targetMarginPct)), Hundred)
        marginDenominator == Times(Minus(Num(1), targetMargin), NET_REVENUE_SHARE)
        canComputeRevenue == Greater(marginDenominator, Num(0))
        requiredRevenue == IF canComputeRevenue THEN Over(productionCost, marginDenominator)
                           ELSE Num(0)
        requiredUnitPrice ==
            IF canComputeRevenue /\ Greater(requiredRevenue, Num(0))
               /\ Greater(totalQuantity, Num(0))
            THEN Over(requiredRevenue, totalQuantity) ELSE Num(0)
    IN  [revenue           |-> revenue,
         netRevenue        |-> netRevenue,
         supplier          |-> supplier,
         prodOverhead      |-> prodOverhead,
         extrasTotal       |-> extrasTotal,
         withholdingTax    |-> withholdingTax,
         grossProfit       |-> grossProfit,
         marginPct         |-> marginPct,
         profitPerUnit     |-> profitPerUnit,
         netRevenuePerUnit |-> netRevenuePerUnit,
         requiredUnitPrice |-> requiredUnitPrice,
         productBreakdown  |-> productBreakdown]

(***************************************************************************)
(* The client's calculators: the results that CalculatorPage computes in   *)
(* its useMemo, the toBase of utils/currency.ts and computeTotals.         *)
(***************************************************************************)
\* export const toBase = (amount, curr, base, usdRate): no branch for a missing curr.
currency_toBase(amount, curr, base, usdRate) ==
    LET a    == IF NumberIsFinite(amount) THEN amount ELSE Num(0)
        rate == IF NumberIsFinite(usdRate) /\ Greater(usdRate, Num(0)) THEN usdRate ELSE Num(1)
    IN  IF base = "NGN" THEN (IF curr = "NGN" THEN a ELSE Times(a, rate))
        ELSE (IF curr = "USD" THEN a ELSE Over(a, rate))

CalculatorPage_WITHHOLDING_RATE == Frac(2, 100)

CalculatorPage_NET_REVENUE_SHARE == Minus(Num(1), CalculatorPage_WITHHOLDING_RATE)

\* products.map((product) => ...)
CalculatorPage_productLine(product) ==
    LET quantity           == MathMax(Num(0), OrZero(product.quantity))
        revenue            == Times(OrZero(product.unitSellPrice), quantity)
        supplierCost       == Times(OrZero(product.unitSupplierCost), quantity)
        productionOverhead == Times(OrZero(product.unitProductionOverhead), quantity)
    IN  [productId          |-> product.id,
         name               |-> IF product.name \in {"undefined", ""} THEN "Untitled product"
                                ELSE product.name,
         quantity           |-> quantity,
         revenue            |-> revenue,
         supplierCost       |-> supplierCost,
         productionOverhead |-> productionOverhead,
         grossProfit        |-> Minus(Minus(revenue, supplierCost), productionOverhead)]

\* Faulty variant: the extra's currency passed on as it is, without || baseCurrency.
CalculatorPage_extraValue_noDefault(extra, totalRevenue, totalQuantity, baseCurrency, usdRate) ==
    IF extra.kind = "percent"
    THEN Times(totalRevenue, Over(MathMax(Num(0), OrZero(extra.percent)), Hundred))
    ELSE LET asBase == currency_toBase(MathMax(Num(0), OrZero(extra.amount)),
                                       extra.currency, baseCurrency, usdRate)
             multiplier == IF Greater(totalQuantity, Num(0)) THEN totalQuantity ELSE Num(0)
         IN  IF extra.allocation = "per-order" THEN asBase ELSE Times(asBase, multiplier)

\* extras.map((extra) => ...), with toBase(.., (extra.currency || baseCurrency), ..)
CalculatorPage_extraValue(extra, totalRevenue, totalQuantity, baseCurrency, usdRate) ==
    IF extra.kind = "percent"
    THEN Times(totalRevenue, Over(MathMax(Num(0), OrZero(extra.percent)), Hundred))
    ELSE LET curr   == IF extra.currency = "undefined" THEN baseCurrency ELSE extra.currency
             asBase == currency_toBase(MathMax(Num(0), OrZero(extra.amount)), curr,
                                       baseCurrency, usdRate)
             multiplier == IF Greater(totalQuantity, Num(0)) THEN totalQuantity ELSE Num(0)
         IN  IF extra.allocation = "per-order" THEN asBase ELSE Times(asBase, multiplier)

\* const results: Results = useMemo(() => ...)
CalculatorPage_results(input) ==
    LET productBreakdown == [i \in 1..Len(input.products) |->
                                CalculatorPage_productLine(input.products[i])]
        totalQuantity == SumOver(productBreakdown, "quantity")
        totalRevenue  == SumOver(productBreakdown, "revenue")
        totalSupplier == SumOver(productBreakdown, "supplierCost")
        totalOverhead == SumOver(productBreakdown, "productionOverhead")
        extraTotals   == [i \in 1..Len(input.extras) |->
                            CalculatorPage_extraValue(input.extras[i], totalRevenue,
                                                      totalQuantity, input.baseCurrency,
                                                      input.usdRate)]
        extrasTotal   == SumSeq(extraTotals)
        productionCost == Plus(Plus(totalSupplier, totalOverhead), extrasTotal)
        withholdingTax == IF Greater(totalRevenue, Num(0))
                          THEN Times(totalRevenue, CalculatorPage_WITHHOLDING_RATE)
                          ELSE Num(0)
        netRevenue    == MathMax(Minus(totalRevenue, withholdingTax), Num(0))
        grossProfit   == Minus(netRevenue, productionCost)
        marginPct     == IF Greater(netRevenue, Num(0))
                         THEN Times(Over(grossProfit, netRevenue), Hundred) ELSE Num(0)
        profitPerUnit == IF Greater(totalQuantity, Num(0))
                         THEN Over(grossProfit, totalQuantity) ELSE Num(0)
        netRevenuePerUnit == IF Greater(totalQuantity, Num(0))
                             THEN Over(netRevenue, totalQuantity) ELSE Num(0)
        targetMargin  == Over(MathMax(Num(0), OrZero(input.targetMarginPct)), Hundred)
        marginDenominator == Times(Minus(Num(1), targetMargin),
                                   CalculatorPage_NET_REVENUE_SHARE)
        canComputeRevenue == Greater(marginDenominator, Num(0))
        requiredRevenue == IF canComputeRevenue THEN Over(productionCost, marginDenominator)
                           ELSE Num(0)
        requiredUnitPrice ==
            IF canComputeRevenue /\ Greater(requiredRevenue, Num(0))
               /\ Greater(totalQuantity, Num(0))
            THEN Over(requiredRevenue, totalQuantity) ELSE Num(0)
    IN  [revenue           |-> totalRevenue,
         netRevenue        |-> netRevenue,
         supplier          |-> totalSupplier,
         prodOverhead      |-> totalOverhead,
         extrasTotal       |-> extrasTotal,
         withholdingTax    |-> withholdingTax,
         grossProfit       |-> grossProfit,
         marginPct         |-> marginPct,
         profitPerUnit     |-> profitPerUnit,
         netRevenuePerUnit |-> netRevenuePerUnit,
         requiredUnitPrice |-> requiredUnitPrice,
         productBreakdown  |-> productBreakdown]

RECURSIVE computeTotals_subtotal(_)
\* invoice.items.reduce((acc, item) => ..., 0) of computeTotals
computeTotals_subtotal(items) ==
    IF items = <<>> THEN Num(0)
    ELSE LET item  == items[Len(items)]
             qty   == IF NumberIsFinite(item.quantity) THEN MathMax(item.quantity, Num(0))
                      ELSE Num(0)
             price == IF NumberIsFinite(item.unitPrice) THEN MathMax(item.unitPrice, Num(0))
                      ELSE Num(0)
         IN  Plus(computeTotals_subtotal(SubSeq(items, 1, Len(items) - 1)),
                  Times(qty, price))

\* const computeTotals = (invoice: InvoiceData): InvoiceTotals => ...
computeTotals(invoice) ==
    LET subtotal    == computeTotals_subtotal(invoice.items)
        discountPct == IF NumberIsFinite(invoice.discountPct)
                       THEN MathMax(OrZero(invoice.discountPct), Num(0)) ELSE Num(0)
        taxPct      == IF NumberIsFinite(invoice.taxPct)
                       THEN MathMax(OrZero(invoice.taxPct), Num(0)) ELSE Num(0)
        shipping    == IF NumberIsFinite(invoice.shipping)
                       THEN MathMax(OrZero(invoice.shipping), Num(0)) ELSE Num(0)
        discount    == Times(subtotal, Over(discountPct, Hundred))
        taxable     == MathMax(Minus(subtotal, discount), Num(0))
        tax         == Times(taxable, Over(taxPct, Hundred))
        total       == Plus(Plus(taxable, tax), shipping)
    IN  [subtotal |-> subtotal, discount |-> discount, taxable |-> taxable,
         tax |-> tax, shipping |-> shipping, total |-> total]

RECURSIVE ItemsSubtotal(_)
ItemsSubtotal(items) ==
    IF items = <<>> THEN Num(0)
    ELSE LET item  == items[Len(items)]
             qty   == IF NumberIsFinite(item.quantity) THEN MathMax(item.quantity, Num(0))
                      ELSE Num(0)
             price == IF NumberIsFinite(item.unitPrice) THEN MathMax(item.unitPrice, Num(0))
                      ELSE Num(0)
         IN  Plus(ItemsSubtotal(SubSeq(items, 1, Len(items) - 1)), Times(qty, price))

\* Faulty variant: the tax taken on the subtotal, before the discount.
computeInvoiceTotals_taxOnSubtotal(invoice) ==
    LET subtotal    == ItemsSubtotal(invoice.items)
        discountPct == IF NumberIsFinite(invoice.discountPct)
                       THEN MathMax(OrZero(invoice.discountPct), Num(0)) ELSE Num(0)
        taxPct      == IF NumberIsFinite(invoice.taxPct)
                       THEN MathMax(OrZero(invoice.taxPct), Num(0)) ELSE Num(0)
        shipping    == IF NumberIsFinite(invoice.shipping)
                       THEN MathMax(OrZero(invoice.shipping), Num(0)) ELSE Num(0)
        discount    == Times(subtotal, Over(discountPct, Hundred))
        taxable     == MathMax(Minus(subtotal, discount), Num(0))
        tax         == Times(subtotal, Over(taxPct, Hundred))
        total       == Plus(Plus(taxable, tax), shipping)
    IN  [subtotal |-> subtotal, discount |-> discount, taxable |-> taxable,
         tax |-> tax, shipping |-> shipping, total |-> total]

\* Faulty variant: the taxable amount not clamped at 0.
computeInvoiceTotals_unclamped(invoice) ==
    LET subtotal    == ItemsSubtotal(invoice.items)
        discountPct == IF NumberIsFinite(invoice.discountPct)
                       THEN MathMax(OrZero(invoice.discountPct), Num(0)) ELSE Num(0)
        taxPct      == IF NumberIsFinite(invoice.taxPct)
                       THEN MathMax(OrZero(invoice.taxPct), Num(0)) ELSE Num(0)
        shipping    == IF NumberIsFinite(invoice.shipping)
                       THEN MathMax(OrZero(invoice.shipping), Num(0)) ELSE Num(0)
        discount    == Times(subtotal, Over(discountPct, Hundred))
        taxable     == Minus(subtotal, discount)
        tax         == Times(taxable, Over(taxPct, Hundred))
        total       == Plus(Plus(taxable, tax), shipping)
    IN  [subtotal |-> subtotal, discount |-> discount, taxable |-> taxable,
         tax |-> tax, shipping |-> shipping, total |-> total]

\* export function computeInvoiceTotals(invoice)
computeInvoiceTotals(invoice) ==
    LET subtotal    == ItemsSubtotal(invoice.items)
        discountPct == IF NumberIsFinite(invoice.discountPct)
                       THEN MathMax(OrZero(invoice.discountPct), Num(0)) ELSE Num(0)
        taxPct      == IF NumberIsFinite(invoice.taxPct)
                       THEN MathMax(OrZero(invoice.taxPct), Num(0)) ELSE Num(0)
        shipping    == IF NumberIsFinite(invoice.shipping)
                       THEN MathMax(OrZero(invoice.shipping), Num(0)) ELSE Num(0)
        discount    == Times(subtotal, Over(discountPct, Hundred))
        taxable     == MathMax(Minus(subtotal, discount), Num(0))
        tax         == Times(taxable, Over(taxPct, Hundred))
        total       == Plus(Plus(taxable, tax), shipping)
    IN  [subtotal |-> subtotal, discount |-> discount, taxable |-> taxable,
         tax |-> tax, shipping |-> shipping, total |-> total]

(***************************************************************************)
(* The persisted text columns.  payload and totals are TEXT columns that   *)
(* hold JSON.stringify output; a stored text that is not JSON is kept as   *)
(* [raw |-> text].  JSON has no NaN or Infinity: stringify writes null.    *)
(***************************************************************************)
JSONnum(x) ==
    IF x = Undefined \/ x = JsonNull THEN x
    ELSE IF isFinite(x) THEN x ELSE JsonNull

EncRec(r, numFields) == [f \in DOMAIN r |-> IF f \in numFields THEN JSONnum(r[f]) ELSE r[f]]

EncSeq(s, numFields) == [i \in 1..Len(s) |-> EncRec(s[i], numFields)]

ProductNumFields ==
    {"quantity", "unitSellPrice", "unitSupplierCost", "unitProductionOverhead", "markupPct"}

BreakdownNumFields ==
    {"quantity", "revenue", "supplierCost", "productionOverhead", "grossProfit"}

ResultsNumFields ==
    {"revenue", "netRevenue", "supplier", "prodOverhead", "extrasTotal", "withholdingTax",
     "grossProfit", "marginPct", "profitPerUnit", "netRevenuePerUnit", "requiredUnitPrice"}

EncCalcInput(input) ==
    [EncRec(input, {"usdRate", "targetMarginPct"}) EXCEPT
        !.products = EncSeq(input.products, ProductNumFields),
        !.extras   = EncSeq(input.extras, {"amount", "percent"})]

EncResults(results) ==
    [EncRec(results, ResultsNumFields) EXCEPT
        !.productBreakdown = EncSeq(results.productBreakdown, BreakdownNumFields)]

EncInvoiceData(invoice) ==
    [EncRec(invoice, {"discountPct", "taxPct", "shipping"}) EXCEPT
        !.items = EncSeq(invoice.items, {"quantity", "unitPrice"})]

EncTotals(totals) == EncRec(totals, DOMAIN totals)

\* JSON.stringify({ input, results })
StringifyReceiptPayload(payloadObj) ==
    [json |-> [input |-> EncCalcInput(payloadObj.input),
               results |-> EncResults(payloadObj.results)]]

\* JSON.stringify(invoiceData)
StringifyInvoiceData(invoice) == [json |-> EncInvoiceData(invoice)]

\* JSON.stringify(totals)
StringifyTotals(totals) == [json |-> EncTotals(totals)]

\* JSON.parse(text) throws a SyntaxError on a text that is not JSON.
ParseThrows(text) == "json" \notin DOMAIN text

JSONparse(text) == text.json

\* (() => { try { return JSON.parse(text) } catch { return text } })()
ParseOrRaw(text) == IF ParseThrows(text) THEN text ELSE JSONparse(text)

(***************************************************************************)
(* Requests.  Users are the authenticated users (req.user.id); Anonymous   *)
(* is a request that carries no req.user.  Request bodies are drawn from   *)
(* small sets; InvalidBody is a body the zod schema rejects.               *)
(***************************************************************************)
Users == {"u1", "u2"}

Anonymous == "anonymous"

Requesters == Users \cup {Anonymous}

\* Most rows ever inserted by the handlers in one behaviour.
MaxRecords == 2

\* Most create / update / remove requests in flight at once.
MaxInflight == 2

InvalidBody == [invalid |-> TRUE]

NoBody == [nobody |-> TRUE]

NoRow == [norow |-> TRUE]

RawInputA ==
    [baseCurrency |-> "NGN", usdRate |-> Undefined,
     products |-> <<[id |-> "p1", name |-> "undefined", quantity |-> Num(10),
                     unitSellPrice |-> Num(100), unitSupplierCost |-> Num(40),
                     unitProductionOverhead |-> Num(10), markupPct |-> Undefined]>>,
     extras |-> <<>>, targetMarginPct |-> Undefined]

RawInputB ==
    [baseCurrency |-> "USD", usdRate |-> Num(1500),
     products |-> <<[id |-> "p1", name |-> "Mug", quantity |-> Num(2),
                     unitSellPrice |-> Num(50), unitSupplierCost |-> Num(20),
                     unitProductionOverhead |-> Frac(1, 0), markupPct |-> Num(0)]>>,
     extras |-> <<[id |-> "e1", label |-> "duty", kind |-> "percent", amount |-> Undefined,
                   currency |-> "undefined", percent |-> Num(10),
                   allocation |-> "per-order"]>>,
     targetMarginPct |-> Num(20)]

\* z.number().default(v)
Default(x, v) == IF x = Undefined THEN v ELSE x

\* ProductInput.parse
ParseProductInput(p) ==
    [p EXCEPT !.unitSellPrice = Default(@, Num(0)),
              !.unitSupplierCost = Default(@, Num(0)),
              !.unitProductionOverhead = Default(@, Num(0)),
              !.markupPct = Default(@, Num(0))]

\* CalcInput.parse
ParseCalcInput(raw) ==
    [raw EXCEPT !.usdRate = Default(@, Num(1)),
                !.targetMarginPct = Default(@, Num(0)),
                !.products = [i \in 1..Len(raw.products) |-> ParseProductInput(raw.products[i])]]

ReceiptCreateBodies ==
    {[label |-> "undefined", input |-> RawInputA],
     InvalidBody}

ReceiptUpdateBodies ==
    {[label |-> "y", input |-> Undefined],
     [label |-> "undefined", input |-> RawInputB],
     InvalidBody}

\* ReceiptCreateSchema.parse
ReceiptCreateSchema(body) == [body EXCEPT !.input = ParseCalcInput(@)]

\* ReceiptUpdateSchema.parse
ReceiptUpdateSchema(body) ==
    [body EXCEPT !.input = IF @ = Undefined THEN Undefined ELSE ParseCalcInput(@)]

\* The search strings of list; the only label is "y", so that includes() is equality.
Queries == {"", "y"}

Includes(text, q) == q = "" \/ text = q

\* a ?? b on labels: "undefined" is an absent body field, "null" a NULL column.
Coalesce(a, b) == IF a \in {"undefined", "null"} THEN b ELSE a

(***************************************************************************)
(* The bodies of the invoice requests.                                     *)
(***************************************************************************)
Party == [name |-> "Acme", email |-> "undefined", phone |-> "undefined", address |-> "undefined"]

RawInvoiceA ==
    [invoiceNumber |-> "DRAFT", issueDate |-> "2025-10-28", dueDate |-> "2025-11-28",
     currency |-> "NGN", from |-> Party, to |-> Party,
     notes |-> "undefined", terms |-> "undefined",
     discountPct |-> Num(10), taxPct |-> Num(5), shipping |-> Num(20),
     items |-> <<[id |-> "i1", description |-> "Print", quantity |-> Num(3),
                  unitPrice |-> Num(200)]>>]

RawInvoiceB ==
    [invoiceNumber |-> "INV-0042", issueDate |-> "2025-10-29", dueDate |-> "2025-11-29",
     currency |-> "USD", from |-> Party, to |-> Party,
     notes |-> "net 30", terms |-> "undefined",
     discountPct |-> Undefined, taxPct |-> Undefined, shipping |-> Frac(1, 0),
     items |-> <<[id |-> "i1", description |-> "Design", quantity |-> Num(1),
                  unitPrice |-> Num(100)]>>]

\* InvoiceParty.parse: z.string().optional().default('')
ParseInvoiceParty(p) == [f \in DOMAIN p |-> IF p[f] = "undefined" THEN "" ELSE p[f]]

\* InvoiceData.parse
ParseInvoiceData(raw) ==
    [raw EXCEPT !.from = ParseInvoiceParty(@), !.to = ParseInvoiceParty(@)]

InvoiceCreateBodies ==
    {[label |-> "undefined", usdRate |-> Undefined, invoice |-> RawInvoiceA],
     InvalidBody}

InvoiceUpdateBodies ==
    {[label |-> "y", usdRate |-> Undefined, invoice |-> Undefined],
     [label |-> "undefined", usdRate |-> Num(1600), invoice |-> RawInvoiceB],
     InvalidBody}

\* InvoiceCreateSchema.parse
InvoiceCreateSchema(body) == [body EXCEPT !.invoice = ParseInvoiceData(@)]

\* InvoiceUpdateSchema.parse
InvoiceUpdateSchema(body) ==
    [body EXCEPT !.invoice = IF @ = Undefined THEN Undefined ELSE ParseInvoiceData(@)]

\* value.toString().padStart(4, '0')
PadStart4(value) ==
    IF value < 10 THEN "000" \o ToString(value)
    ELSE IF value < 100 THEN "00" \o ToString(value)
    ELSE IF value < 1000 THEN "0" \o ToString(value)
    ELSE ToString(value)

formatInvoiceNumber(value) == "INV-" \o PadStart4(value)

(***************************************************************************)
(* State.  receipt and invoice are the two tables; inflight is the bag of  *)
(* create / update / remove requests that have made their first query and  *)
(* not yet their write; nextId is the id generator (ids are issued in      *)
(* creation order and never reused); issued remembers the number each row  *)
(* got when it was inserted; controller is the controller the requests of  *)
(* this behaviour go to.  prisma_user is the User table, now the clock the  *)
(* reset handlers read, and resetSuccess the bag of the tokens whose        *)
(* resetPassword request was answered { success: true }.                   *)
(***************************************************************************)
VARIABLES receipt, invoice, inflight, nextId, issued, controller, calc, prisma_user, now, resetSuccess

vars == <<receipt, invoice, inflight, nextId, issued, controller, calc, prisma_user, now, resetSuccess>>

\* calc holds the last call of the calculators and what it returned.
NoCall == [op |-> "none"]

\* A text that JSON.parse rejects, in a row that the migrations carried over.
LegacyText == [raw |-> "legacy"]

LegacyReceipts ==
    {[id |-> 1, label |-> "null", payload |-> LegacyText, receiptNumber |-> 1, userId |-> "u1"]}

LegacyInvoices ==
    {[id |-> 1, label |-> "null", usdRate |-> JsonNull, payload |-> LegacyText,
      totals |-> LegacyText, invoiceNumber |-> 1, userId |-> "u1"]}

\* What a handler step answers: res.status(..).json(..), or next(err) with the error.
Reply(status, error, items) == [status |-> status, error |-> error, items |-> items]

\* A handler step that does not answer yet: it goes on to its write.
Pending == Reply("pending", "", <<>>)

AuthenticationRequired == Reply("401", "Authentication required", <<>>)

Request(h, user, id, body, found, next) ==
    [h |-> h, user |-> user, id |-> id, body |-> body, found |-> found, next |-> next,
     attempts |-> 1]

Requests(h) == {r \in BagToSet(inflight) : r.h = h}

Start(r) == inflight' = inflight (+) SetToBag({r})

Finish(r) == inflight' = inflight (-) SetToBag({r})

\* Id 1 of each table belongs to its carried-over row; the handlers' rows start at FirstId.
FirstId == 2

InsertsAhead ==
    (nextId - FirstId)
    + Cardinality(Requests("receipts.create")) + Cardinality(Requests("invoices.create"))

RECURSIVE OrderByDesc(_, _)
\* orderBy: { <field>: 'desc' }
OrderByDesc(rows, field) ==
    IF rows = {} THEN <<>>
    ELSE LET top == CHOOSE r \in rows : \A s \in rows : s[field] <= r[field]
         IN  <<top>> \o OrderByDesc(rows \ {top}, field)

(***************************************************************************)
(* controllers/receipts.  A handler is an operator <name>_res that gives   *)
(* the answer of the step from the tables and the request, and an action   *)
(* that makes the step's changes.                                          *)
(***************************************************************************)
\* Faulty variant: findMany without its where clause.
receipt_findMany_anyUser(userId) == OrderByDesc(receipt, "receiptNumber")

\* prisma.receipt.findMany({ where: { userId }, orderBy: { receiptNumber: 'desc' } })
receipt_findMany(userId) ==
    OrderByDesc({r \in receipt : r.userId = userId}, "receiptNumber")

\* Faulty variant: the row looked up by id alone, findUnique({ where: { id } }).
receipt_findFirst_byIdOnly(id, userId) ==
    IF \E r \in receipt : r.id = id THEN CHOOSE r \in receipt : r.id = id ELSE NoRow

\* prisma.receipt.findFirst({ where: { id, userId } })
receipt_findFirst(id, userId) ==
    IF \E r \in receipt : r.id = id /\ r.userId = userId
    THEN CHOOSE r \in receipt : r.id = id /\ r.userId = userId
    ELSE NoRow

\* tx.receipt.findFirst({ where: { userId }, orderBy: { receiptNumber: 'desc' }, select })
receipt_findLast(userId) ==
    LET rows == receipt_findMany(userId)
    IN  IF rows = <<>> THEN NoRow ELSE [receiptNumber |-> rows[1].receiptNumber]

\* Faulty variant: the absent last row counted as number 1, (last?.receiptNumber ?? 1) + 1.
nextReceiptNumber_fromOne(last) == (IF last = NoRow THEN 1 ELSE last.receiptNumber) + 1

\* (last?.receiptNumber ?? 0) + 1
nextReceiptNumber(last) == (IF last = NoRow THEN 0 ELSE last.receiptNumber) + 1

\* Faulty variant: the table without its unique index, as before the numbering migration.
Receipt_userId_receiptNumber_key_dropped(userId, receiptNumber) == FALSE

\* CREATE UNIQUE INDEX "Receipt_userId_receiptNumber_key": does the insert collide.
Receipt_userId_receiptNumber_key(userId, receiptNumber) ==
    \E r \in receipt : r.userId = userId /\ r.receiptNumber = receiptNumber

\* res.json sends the JSON text of the value; the value the caller gets is its decoding.
ResJson(payloadObj) == JSONparse(StringifyReceiptPayload(payloadObj))

\* The answer of a read for one row: { ...item, payload: parse-or-raw }
ReceiptView(item) == [item EXCEPT !.payload = ParseOrRaw(@)]

receipts_list_res(user, q) ==
    IF user = Anonymous THEN AuthenticationRequired
    ELSE LET items    == receipt_findMany(user)
             filtered == IF q # ""
                         THEN SelectSeq(items, LAMBDA i : Includes(Coalesce(i.label, ""), q))
                         ELSE items
         IN  Reply("200", "", [k \in 1..Len(filtered) |-> ReceiptView(filtered[k])])

receipts_list(user, q) ==
    /\ controller = "receipts"
    /\ receipts_list_res(user, q) # Pending
    /\ UNCHANGED vars

receipts_getOne_res(user, id) ==
    IF user = Anonymous THEN AuthenticationRequired
    ELSE LET item == receipt_findFirst(id, user)
         IN  IF item = NoRow THEN Reply("404", "Receipt not found", <<>>)
             ELSE Reply("200", "", <<ReceiptView(item)>>)

receipts_getOne(user, id) ==
    /\ controller = "receipts"
    /\ receipts_getOne_res(user, id) # Pending
    /\ UNCHANGED vars

\* create, up to the transaction's findFirst
receipts_create_res(user, raw) ==
    IF user = Anonymous THEN AuthenticationRequired
    ELSE IF raw = InvalidBody THEN Reply("next(err)", "ZodError", <<>>)
    ELSE Pending

receipts_create(user, raw) ==
    /\ controller = "receipts"
    /\ IF receipts_create_res(user, raw) # Pending THEN UNCHANGED vars
       ELSE /\ InsertsAhead < MaxRecords
            /\ BagCardinality(inflight) < MaxInflight
            /\ LET body == ReceiptCreateSchema(raw)
                   last == receipt_findLast(user)
               IN  Start(Request("receipts.create", user, 0, body, NoRow,
                                 nextReceiptNumber(last)))
            /\ UNCHANGED <<receipt, invoice, nextId, issued, controller, calc, prisma_user, now, resetSuccess>>

\* const payloadObj = { input: body.input, results }
receipts_create_payloadObj(body) ==
    [input |-> body.input, results |-> computeCalculator(body.input)]

\* Faulty variant: the payload stored without the results, JSON.stringify({ input }).
receipts_create_data_inputOnly(r) ==
    [id |-> nextId,
     label |-> Coalesce(r.body.label, "null"),
     payload |-> [json |-> [input |-> EncCalcInput(r.body.input)]],
     userId |-> r.user,
     receiptNumber |-> r.next]

\* data: { label, payload: JSON.stringify(payloadObj), userId, receiptNumber }
receipts_create_data(r) ==
    [id |-> nextId,
     label |-> Coalesce(r.body.label, "null"),
     payload |-> StringifyReceiptPayload(receipts_create_payloadObj(r.body)),
     userId |-> r.user,
     receiptNumber |-> r.next]

\* create, from tx.receipt.create to the answer
receipts_create_insert_res(r) ==
    IF Receipt_userId_receiptNumber_key(r.user, r.next)
    THEN Reply("next(err)", "P2002", <<>>)
    ELSE Reply("201", "", <<[receipts_create_data(r) EXCEPT
                               !.payload = ResJson(receipts_create_payloadObj(r.body))]>>)

receipts_create_insert ==
    /\ controller = "receipts"
    /\ \E r \in Requests("receipts.create") :
           /\ Finish(r)
           /\ IF ~Receipt_userId_receiptNumber_key(r.user, r.next)
              THEN /\ receipt' = receipt \cup {receipts_create_data(r)}
                   /\ nextId' = nextId + 1
                   /\ issued' = issued \cup {[id |-> nextId, kind |-> "receipt",
                                              userId |-> r.user, number |-> r.next]}
              ELSE UNCHANGED <<receipt, nextId, issued>>
           /\ UNCHANGED <<invoice, controller, calc, prisma_user, now, resetSuccess>>

\* update, up to its findFirst and the decoding of the found payload
receipts_update_res(user, id, raw) ==
    IF user = Anonymous THEN AuthenticationRequired
    ELSE IF raw = InvalidBody THEN Reply("next(err)", "ZodError", <<>>)
    ELSE LET found == receipt_findFirst(id, user)
         IN  IF found = NoRow THEN Reply("404", "Receipt not found", <<>>)
             ELSE IF ParseThrows(found.payload) THEN Reply("next(err)", "SyntaxError", <<>>)
             ELSE Pending

receipts_update(user, id, raw) ==
    /\ controller = "receipts"
    /\ IF receipts_update_res(user, id, raw) # Pending THEN UNCHANGED vars
       ELSE /\ BagCardinality(inflight) < MaxInflight
            /\ Start(Request("receipts.update", user, id, ReceiptUpdateSchema(raw),
                             receipt_findFirst(id, user), 0))
            /\ UNCHANGED <<receipt, invoice, nextId, issued, controller, calc, prisma_user, now, resetSuccess>>

\* Faulty variant: a new input stored beside the results the row already had.
receipts_update_payload_staleResults(body, found) ==
    IF body.input # Undefined
    THEN [input |-> body.input,
          results |-> IF ParseThrows(found.payload) THEN computeCalculator(body.input)
                      ELSE JSONparse(found.payload).results]
    ELSE JSONparse(found.payload)

\* let payload = JSON.parse(found.payload); if (body.input) payload = { input, results }
receipts_update_payload(body, found) ==
    IF body.input # Undefined
    THEN [input |-> body.input, results |-> computeCalculator(body.input)]
    ELSE JSONparse(found.payload)

\* Faulty variant: an update that assigns the row a fresh number.
receipts_update_data_renumbered(row, body, found) ==
    [row EXCEPT !.label = Coalesce(body.label, found.label),
                !.payload = StringifyReceiptPayload(receipts_update_payload(body, found)),
                !.receiptNumber = nextReceiptNumber(receipt_findLast(row.userId))]

\* data: { label: body.label ?? found.label, payload: JSON.stringify(payload) }
receipts_update_data(row, body, found) ==
    [row EXCEPT !.label = Coalesce(body.label, found.label),
                !.payload = StringifyReceiptPayload(receipts_update_payload(body, found))]

\* update, from prisma.receipt.update({ where: { id } }) to the answer
receipts_update_update_res(r) ==
    IF \E row \in receipt : row.id = r.id
    THEN LET row == CHOOSE x \in receipt : x.id = r.id
         IN  Reply("200", "", <<[receipts_update_data(row, r.body, r.found) EXCEPT
                                   !.payload = ResJson(receipts_update_payload(r.body, r.found))]>>)
    ELSE Reply("next(err)", "P2025", <<>>)

receipts_update_update ==
    /\ controller = "receipts"
    /\ \E r \in Requests("receipts.update") :
           /\ Finish(r)
           /\ IF \E row \in receipt : row.id = r.id
              THEN LET row == CHOOSE x \in receipt : x.id = r.id
                   IN  receipt' = (receipt \ {row}) \cup {receipts_update_data(row, r.body, r.found)}
              ELSE UNCHANGED receipt
           /\ UNCHANGED <<invoice, nextId, issued, controller, calc, prisma_user, now, resetSuccess>>

\* remove, up to its findFirst
receipts_remove_res(user, id) ==
    IF user = Anonymous THEN AuthenticationRequired
    ELSE IF receipt_findFirst(id, user) = NoRow THEN Reply("404", "Receipt not found", <<>>)
    ELSE Pending

receipts_remove(user, id) ==
    /\ controller = "receipts"
    /\ IF receipts_remove_res(user, id) # Pending THEN UNCHANGED vars
       ELSE /\ BagCardinality(inflight) < MaxInflight
            /\ Start(Request("receipts.remove", user, id, NoBody, NoRow, 0))
            /\ UNCHANGED <<receipt, invoice, nextId, issued, controller, calc, prisma_user, now, resetSuccess>>

\* remove, from prisma.receipt.delete({ where: { id } }) to the answer
receipts_remove_delete_res(r) ==
    IF \E row \in receipt : row.id = r.id THEN Reply("204", "", <<>>)
    ELSE Reply("next(err)", "P2025", <<>>)

receipts_remove_delete ==
    /\ controller = "receipts"
    /\ \E r \in Requests("receipts.remove") :
           /\ Finish(r)
           /\ receipt' = IF \E row \in receipt : row.id = r.id
                         THEN {row \in receipt : row.id # r.id} ELSE receipt
           /\ UNCHANGED <<invoice, nextId, issued, controller, calc, prisma_user, now, resetSuccess>>

(***************************************************************************)
(* controllers/invoices                                                    *)
(***************************************************************************)
\* prisma.invoice.findMany({ where: { userId }, orderBy: { invoiceNumber: 'desc' } })
invoice_findMany(userId) ==
    OrderByDesc({r \in invoice : r.userId = userId}, "invoiceNumber")

\* prisma.invoice.findFirst({ where: { id, userId } })
invoice_findFirst(id, userId) ==
    IF \E r \in invoice : r.id = id /\ r.userId = userId
    THEN CHOOSE r \in invoice : r.id = id /\ r.userId = userId
    ELSE NoRow

\* tx.invoice.findFirst({ where: { userId }, orderBy: { invoiceNumber: 'desc' }, select })
invoice_findLast(userId) ==
    LET rows == invoice_findMany(userId)
    IN  IF rows = <<>> THEN NoRow ELSE [invoiceNumber |-> rows[1].invoiceNumber]

\* Faulty variant: the last number taken as it is when there is one, last?.invoiceNumber ?? 1.
nextInvoiceNumber_noIncrement(last) == IF last = NoRow THEN 1 ELSE last.invoiceNumber

\* (last?.invoiceNumber ?? 0) + 1
nextInvoiceNumber(last) == (IF last = NoRow THEN 0 ELSE last.invoiceNumber) + 1

\* Faulty variant: the unique index on invoiceNumber alone, without userId.
Invoice_invoiceNumber_key(userId, invoiceNumber) ==
    \E r \in invoice : r.invoiceNumber = invoiceNumber

\* Faulty variant: the table without its unique index, as before the numbering migration.
Invoice_userId_invoiceNumber_key_dropped(userId, invoiceNumber) == FALSE

\* CREATE UNIQUE INDEX "Invoice_userId_invoiceNumber_key": does the insert collide.
Invoice_userId_invoiceNumber_key(userId, invoiceNumber) ==
    \E r \in invoice : r.userId = userId /\ r.invoiceNumber = invoiceNumber

\* The value the caller decodes from res.json, for a payload and for totals.
ResJsonInvoice(invoiceData) == JSONparse(StringifyInvoiceData(invoiceData))

ResJsonTotals(totals) == JSONparse(StringifyTotals(totals))

\* list: { ...i, payload: parse-or-raw, totals: parse-or-raw }
InvoiceListView(i) == [i EXCEPT !.payload = ParseOrRaw(@), !.totals = ParseOrRaw(@)]

invoices_list_res(user, q) ==
    IF user = Anonymous THEN AuthenticationRequired
    ELSE LET items    == invoice_findMany(user)
             filtered == IF q # ""
                         THEN SelectSeq(items, LAMBDA i : Includes(Coalesce(i.label, ""), q))
                         ELSE items
         IN  Reply("200", "", [k \in 1..Len(filtered) |-> InvoiceListView(filtered[k])])

invoices_list(user, q) ==
    /\ controller = "invoices"
    /\ invoices_list_res(user, q) # Pending
    /\ UNCHANGED vars

\* getOne decodes with JSON.parse and no catch of its own: a throw goes to next(err).
invoices_getOne_res(user, id) ==
    IF user = Anonymous THEN AuthenticationRequired
    ELSE LET item == invoice_findFirst(id, user)
         IN  IF item = NoRow THEN Reply("404", "Invoice not found", <<>>)
             ELSE IF ParseThrows(item.payload) \/ ParseThrows(item.totals)
             THEN Reply("next(err)", "SyntaxError", <<>>)
             ELSE Reply("200", "", <<[item EXCEPT !.payload = JSONparse(@),
                                                  !.totals = JSONparse(@)]>>)

invoices_getOne(user, id) ==
    /\ controller = "invoices"
    /\ invoices_getOne_res(user, id) # Pending
    /\ UNCHANGED vars

\* create, up to the transaction's findFirst
invoices_create_res(user, raw) ==
    IF user = Anonymous THEN AuthenticationRequired
    ELSE IF raw = InvalidBody THEN Reply("next(err)", "ZodError", <<>>)
    ELSE Pending

invoices_create(user, raw) ==
    /\ controller = "invoices"
    /\ IF invoices_create_res(user, raw) # Pending THEN UNCHANGED vars
       ELSE /\ InsertsAhead < MaxRecords
            /\ BagCardinality(inflight) < MaxInflight
            /\ LET body == InvoiceCreateSchema(raw)
                   last == invoice_findLast(user)
               IN  Start(Request("invoices.create", user, 0, body, NoRow,
                                 nextInvoiceNumber(last)))
            /\ UNCHANGED <<receipt, invoice, nextId, issued, controller, calc, prisma_user, now, resetSuccess>>

\* const invoiceData = { ...body.invoice, invoiceNumber: formattedNumber }
invoices_create_invoiceData(r) ==
    [r.body.invoice EXCEPT !.invoiceNumber = formatInvoiceNumber(r.next)]

\* data: { label, usdRate, payload, totals, userId, invoiceNumber }
invoices_create_data(r) ==
    LET invoiceData == invoices_create_invoiceData(r)
        totals      == computeInvoiceTotals(invoiceData)
    IN  [id |-> nextId,
         label |-> Coalesce(r.body.label, "null"),
         usdRate |-> Default(r.body.usdRate, JsonNull),
         payload |-> StringifyInvoiceData(invoiceData),
         totals |-> StringifyTotals(totals),
         userId |-> r.user,
         invoiceNumber |-> r.next]

\* create, from formatInvoiceNumber and tx.invoice.create to the answer
invoices_create_insert_res(r) ==
    IF Invoice_userId_invoiceNumber_key(r.user, r.next)
    THEN Reply("next(err)", "P2002", <<>>)
    ELSE LET invoiceData == invoices_create_invoiceData(r)
         IN  Reply("201", "", <<[invoices_create_data(r) EXCEPT
                                   !.payload = ResJsonInvoice(invoiceData),
                                   !.totals = ResJsonTotals(computeInvoiceTotals(invoiceData))]>>)

invoices_create_insert ==
    /\ controller = "invoices"
    /\ \E r \in Requests("invoices.create") :
           /\ Finish(r)
           /\ IF ~Invoice_userId_invoiceNumber_key(r.user, r.next)
              THEN /\ invoice' = invoice \cup {invoices_create_data(r)}
                   /\ nextId' = nextId + 1
                   /\ issued' = issued \cup {[id |-> nextId, kind |-> "invoice",
                                              userId |-> r.user, number |-> r.next]}
              ELSE UNCHANGED <<invoice, nextId, issued>>
           /\ UNCHANGED <<receipt, controller, calc, prisma_user, now, resetSuccess>>

\* update, up to its findFirst and body.invoice ?? JSON.parse(found.payload)
invoices_update_res(user, id, raw) ==
    IF user = Anonymous THEN AuthenticationRequired
    ELSE IF raw = InvalidBody THEN Reply("next(err)", "ZodError", <<>>)
    ELSE LET found == invoice_findFirst(id, user)
         IN  IF found = NoRow THEN Reply("404", "Invoice not found", <<>>)
             ELSE IF raw.invoice = Undefined /\ ParseThrows(found.payload)
             THEN Reply("next(err)", "SyntaxError", <<>>)
             ELSE Pending

invoices_update(user, id, raw) ==
    /\ controller = "invoices"
    /\ IF invoices_update_res(user, id, raw) # Pending THEN UNCHANGED vars
       ELSE /\ BagCardinality(inflight) < MaxInflight
            /\ Start(Request("invoices.update", user, id, InvoiceUpdateSchema(raw),
                             invoice_findFirst(id, user), 0))
            /\ UNCHANGED <<receipt, invoice, nextId, issued, controller, calc, prisma_user, now, resetSuccess>>

\* Faulty variant: the invoice stored with the invoiceNumber string it came with.
invoices_update_invoiceWithNumber_asSent(body, found) ==
    IF body.invoice # Undefined THEN body.invoice ELSE JSONparse(found.payload)

\* { ...(body.invoice ?? JSON.parse(found.payload)), invoiceNumber: format(found.invoiceNumber) }
invoices_update_invoiceWithNumber(body, found) ==
    LET inv == IF body.invoice # Undefined THEN body.invoice ELSE JSONparse(found.payload)
    IN  [inv EXCEPT !.invoiceNumber = formatInvoiceNumber(found.invoiceNumber)]

\* data: { label, usdRate, payload, totals }; an undefined usdRate leaves the column alone
invoices_update_data(row, body, found) ==
    LET invoiceWithNumber == invoices_update_invoiceWithNumber(body, found)
        totals            == computeInvoiceTotals(invoiceWithNumber)
    IN  [row EXCEPT !.label   = Coalesce(body.label, found.label),
                    !.usdRate = IF body.usdRate # Undefined THEN body.usdRate
                                ELSE IF found.usdRate # JsonNull THEN found.usdRate
                                ELSE @,
                    !.payload = StringifyInvoiceData(invoiceWithNumber),
                    !.totals  = StringifyTotals(totals)]

\* update, from prisma.invoice.update({ where: { id } }) to the answer
invoices_update_update_res(r) ==
    IF \E row \in invoice : row.id = r.id
    THEN LET row        == CHOOSE x \in invoice : x.id = r.id
             withNumber == invoices_update_invoiceWithNumber(r.body, r.found)
         IN  Reply("200", "", <<[invoices_update_data(row, r.body, r.found) EXCEPT
                                   !.payload = ResJsonInvoice(withNumber),
                                   !.totals = ResJsonTotals(computeInvoiceTotals(withNumber))]>>)
    ELSE Reply("next(err)", "P2025", <<>>)

invoices_update_update ==
    /\ controller = "invoices"
    /\ \E r \in Requests("invoices.update") :
           /\ Finish(r)
           /\ IF \E row \in invoice : row.id = r.id
              THEN LET row == CHOOSE x \in invoice : x.id = r.id
                   IN  invoice' = (invoice \ {row}) \cup {invoices_update_data(row, r.body, r.found)}
              ELSE UNCHANGED invoice
           /\ UNCHANGED <<receipt, nextId, issued, controller, calc, prisma_user, now, resetSuccess>>

\* remove, up to its findFirst
invoices_remove_res(user, id) ==
    IF user = Anonymous THEN AuthenticationRequired
    ELSE IF invoice_findFirst(id, user) = NoRow THEN Reply("404", "Invoice not found", <<>>)
    ELSE Pending

invoices_remove(user, id) ==
    /\ controller = "invoices"
    /\ IF invoices_remove_res(user, id) # Pending THEN UNCHANGED vars
       ELSE /\ BagCardinality(inflight) < MaxInflight
            /\ Start(Request("invoices.remove", user, id, NoBody, NoRow, 0))
            /\ UNCHANGED <<receipt, invoice, nextId, issued, controller, calc, prisma_user, now, resetSuccess>>

\* remove, from prisma.invoice.delete({ where: { id } }) to the answer
invoices_remove_delete_res(r) ==
    IF \E row \in invoice : row.id = r.id THEN Reply("204", "", <<>>)
    ELSE Reply("next(err)", "P2025", <<>>)

invoices_remove_delete ==
    /\ controller = "invoices"
    /\ \E r \in Requests("invoices.remove") :
           /\ Finish(r)
           /\ invoice' = IF \E row \in invoice : row.id = r.id
                         THEN {row \in invoice : row.id # r.id} ELSE invoice
           /\ UNCHANGED <<receipt, nextId, issued, controller, calc, prisma_user, now, resetSuccess>>

(***************************************************************************)
(* Password reset (controllers/auth.ts).  requestReset stores the digest   *)
(* of a fresh token in the user's row; resetPassword looks the row up by   *)
(* the digest of the token it is sent and, after a further await, writes   *)
(* the new password hash and clears the token columns.  The lookup and the *)
(* write are two database calls outside any transaction, so other requests *)
(* run between them.                                                       *)
(***************************************************************************)
\* The tokens a behaviour generates.
MaxTokens == 2

\* The readings of the clock, in units of the expiry period's minutes.
MaxNow == 2

\* env.RESET_TOKEN_EXPIRY_MINUTES
RESET_TOKEN_EXPIRY_MINUTES == 1

\* The NULL of a nullable column; a DateTime column holds [time |-> t] otherwise.
SqlNull == [sqlnull |-> TRUE]

\* crypto.createHash('sha256').update(token).digest('hex'): one digest per token.
sha256(token) == [sha256 |-> token]

\* hashPassword(password), of utils/password
hashPassword(password) == [hashed |-> password]

\* The rows of the User table: the two registered users, no reset pending.
RegisteredUsers ==
    {[id |-> u, email |-> u \o "@example.com", passwordHash |-> hashPassword("password0"),
      resetToken |-> SqlNull, resetTokenExpiresAt |-> SqlNull] : u \in Users}

\* input.email.toLowerCase() on the addresses the requests carry
toLowerCase(email) == IF email = "U1@Example.com" THEN "u1@example.com" ELSE email

\* RequestResetSchema.parse(req.body) throws: z.string().email() on the
\* addresses the requests carry
RequestResetSchemaThrows(body) == body = InvalidBody \/ body.email \in {"", "not-an-email"}

\* ResetPasswordSchema.parse(req.body) throws: token min(1), password min(8)
ResetPasswordSchemaThrows(body) ==
    body = InvalidBody \/ body.token = "" \/ Len(body.password) < 8

\* prisma.user.findUnique({ where: { email } })
user_findUnique(email) ==
    IF \E row \in prisma_user : row.email = email
    THEN CHOOSE row \in prisma_user : row.email = email
    ELSE NoRow

\* prisma.user.findFirst({ where: { resetToken, resetTokenExpiresAt: { gt: now } } })
user_findFirst(hashedToken, at) ==
    LET matches == {row \in prisma_user :
                       /\ row.resetToken = hashedToken
                       /\ row.resetTokenExpiresAt # SqlNull
                       /\ row.resetTokenExpiresAt.time > at}
    IN  IF matches = {} THEN NoRow ELSE CHOOSE row \in matches : TRUE

\* crypto.randomBytes(32).toString('hex'): a value that no earlier call returned,
\* drawn from the generator that also stands for cuid().
rawToken == "tok" \o ToString(nextId)

\* requestReset
requestReset_res(body) ==
    IF RequestResetSchemaThrows(body) THEN Reply("next(err)", "ZodError", <<>>)
    ELSE IF user_findUnique(toLowerCase(body.email)) = NoRow
    THEN Reply("200", "", <<[success |-> TRUE]>>)
    ELSE Reply("200", "", <<[success |-> TRUE, token |-> rawToken]>>)

\* The user row is read only for its id, which no request changes, so the
\* findUnique and the update that follows it are taken as one step.
requestReset(body) ==
    /\ controller = "auth"
    /\ IF RequestResetSchemaThrows(body) \/ user_findUnique(toLowerCase(body.email)) = NoRow
       THEN UNCHANGED vars
       ELSE /\ nextId - FirstId < MaxTokens
            /\ LET user == user_findUnique(toLowerCase(body.email))
                   expiresAt == [time |-> now + RESET_TOKEN_EXPIRY_MINUTES]
               IN  prisma_user' =
                      {IF row.id = user.id
                       THEN [row EXCEPT !.resetToken = sha256(rawToken),
                                        !.resetTokenExpiresAt = expiresAt]
                       ELSE row : row \in prisma_user}
            /\ nextId' = nextId + 1
            /\ UNCHANGED <<receipt, invoice, inflight, issued, controller, calc, now,
                           resetSuccess>>

\* resetPassword, up to its findFirst
resetPassword_res(body) ==
    IF ResetPasswordSchemaThrows(body) THEN Reply("next(err)", "ZodError", <<>>)
    ELSE IF user_findFirst(sha256(body.token), now) = NoRow
    THEN Reply("400", "Invalid or expired reset token", <<>>)
    ELSE Pending

resetPassword(body) ==
    /\ controller = "auth"
    /\ IF resetPassword_res(body) # Pending THEN UNCHANGED vars
       ELSE /\ BagCardinality(inflight) < MaxInflight
            /\ Start(Request("auth.resetPassword", Anonymous,
                             user_findFirst(sha256(body.token), now).id, body,
                             user_findFirst(sha256(body.token), now), 0))
            /\ UNCHANGED <<receipt, invoice, nextId, issued, controller, calc, prisma_user, now,
                           resetSuccess>>

\* data: { passwordHash, resetToken: null, resetTokenExpiresAt: null }
resetPassword_data(row, body) ==
    [row EXCEPT !.passwordHash = hashPassword(body.password),
                !.resetToken = SqlNull,
                !.resetTokenExpiresAt = SqlNull]

\* resetPassword, from hashPassword and prisma.user.update({ where: { id } }) to
\* the answer { success: true }
resetPassword_update ==
    /\ controller = "auth"
    /\ \E r \in Requests("auth.resetPassword") :
           /\ Finish(r)
           /\ prisma_user' = {IF row.id = r.id THEN resetPassword_data(row, r.body) ELSE row :
                                 row \in prisma_user}
           /\ resetSuccess' = resetSuccess (+) SetToBag({r.body.token})
           /\ UNCHANGED <<receipt, invoice, nextId, issued, controller, calc, now>>

\* Time passes between two requests, or between the two database calls of one.
tick ==
    /\ controller = "auth"
    /\ now < MaxNow
    /\ now' = now + 1
    /\ UNCHANGED <<receipt, invoice, inflight, nextId, issued, controller, calc, prisma_user,
                   resetSuccess>>

(***************************************************************************)
(* The store starts empty, or with one receipt and one invoice of u1 that  *)
(* the migrations carried over (numbered 1 by the migration) and whose     *)
(* TEXT columns do not hold JSON.  The two controllers share no state      *)
(* (each reads and writes its own table), so a behaviour follows the       *)
(* requests to one of them: controller names it.                           *)
(***************************************************************************)
Ids == 1..(FirstId + MaxRecords - 1)

\* The (user, id) pairs of the requests; the 401 check reads neither id nor body.
Targets == (Users \X Ids) \cup {<<Anonymous, 1>>}

\* The (user, body) pairs of the create requests.
CreateInputs(bodies) ==
    (Users \X (bodies \ {InvalidBody})) \cup {<<Anonymous, InvalidBody>>, <<"u1", InvalidBody>>}

\* The (user, id, body) triples of the update requests.
UpdateInputs(bodies) ==
    (Users \X Ids \X (bodies \ {InvalidBody}))
    \cup {<<Anonymous, 1, InvalidBody>>, <<"u1", 1, InvalidBody>>}

\* The (user, q) pairs of the list requests.
ListInputs == (Users \X Queries) \cup {<<Anonymous, "">>}

Init ==
    /\ controller \in {"receipts", "invoices"}
    /\ \E legacy \in BOOLEAN :
          /\ receipt = IF legacy THEN LegacyReceipts ELSE {}
          /\ invoice = IF legacy THEN LegacyInvoices ELSE {}
          /\ issued = IF legacy
                      THEN {[id |-> 1, kind |-> "receipt", userId |-> "u1", number |-> 1],
                            [id |-> 1, kind |-> "invoice", userId |-> "u1", number |-> 1]}
                      ELSE {}
    /\ inflight = EmptyBag
    /\ nextId = FirstId
    /\ calc = NoCall
    /\ prisma_user = RegisteredUsers
    /\ now = 0
    /\ resetSuccess = EmptyBag

Next ==
    \/ \E in \in ListInputs : receipts_list(in[1], in[2])
    \/ \E in \in Targets : receipts_getOne(in[1], in[2])
    \/ \E in \in CreateInputs(ReceiptCreateBodies) : receipts_create(in[1], in[2])
    \/ receipts_create_insert
    \/ \E in \in UpdateInputs(ReceiptUpdateBodies) : receipts_update(in[1], in[2], in[3])
    \/ receipts_update_update
    \/ \E in \in Targets : receipts_remove(in[1], in[2])
    \/ receipts_remove_delete
    \/ \E in \in ListInputs : invoices_list(in[1], in[2])
    \/ \E in \in Targets : invoices_getOne(in[1], in[2])
    \/ \E in \in CreateInputs(InvoiceCreateBodies) : invoices_create(in[1], in[2])
    \/ invoices_create_insert
    \/ \E in \in UpdateInputs(InvoiceUpdateBodies) : invoices_update(in[1], in[2], in[3])
    \/ invoices_update_update
    \/ \E in \in Targets : invoices_remove(in[1], in[2])
    \/ invoices_remove_delete

Spec == Init /\ [][Next]_vars

(***************************************************************************)
(* The calculators: the compute handler of the calc controller and direct  *)
(* calls of toBase.                                                        *)
(***************************************************************************)
MaxProducts == 2

MaxExtras == 2

\* Sequences over S of length at most n.
SeqsUpTo(S, n) == UNION {[1..k -> S] : k \in 0..n}

Infinity == Frac(1, 0)

\* req.body.products[i]
RawProducts ==
    {[id |-> "p1", name |-> "undefined", quantity |-> Num(10), unitSellPrice |-> Num(100),
      unitSupplierCost |-> Num(40), unitProductionOverhead |-> Num(10),
      markupPct |-> Undefined],
     [id |-> "p2", name |-> "Cap", quantity |-> Num(-3), unitSellPrice |-> Num(50),
      unitSupplierCost |-> Num(20), unitProductionOverhead |-> Undefined,
      markupPct |-> Undefined],
     [id |-> "p3", name |-> "Bulk", quantity |-> Num(1), unitSellPrice |-> Infinity,
      unitSupplierCost |-> Num(5), unitProductionOverhead |-> Undefined,
      markupPct |-> Undefined],
     [id |-> "p4", name |-> "Mug", quantity |-> Num(2), unitSellPrice |-> Num(50),
      unitSupplierCost |-> Num(20), unitProductionOverhead |-> Infinity,
      markupPct |-> Num(0)],
     [id |-> "p5", name |-> "Credit", quantity |-> Num(4), unitSellPrice |-> Num(-25),
      unitSupplierCost |-> Num(-10), unitProductionOverhead |-> Undefined,
      markupPct |-> Undefined]}

\* req.body.extras[i]
RawExtras ==
    {[id |-> "e1", label |-> "freight", kind |-> "amount", amount |-> Num(50),
      currency |-> "USD", percent |-> Undefined, allocation |-> "per-unit"],
     [id |-> "e2", label |-> "permit", kind |-> "amount", amount |-> Num(50),
      currency |-> "USD", percent |-> Undefined, allocation |-> "per-order"],
     [id |-> "e3", label |-> "duty", kind |-> "percent", amount |-> Undefined,
      currency |-> "undefined", percent |-> Num(10), allocation |-> "per-unit"],
     [id |-> "e4", label |-> "rebate", kind |-> "amount", amount |-> Num(-20),
      currency |-> "NGN", percent |-> Undefined, allocation |-> "per-unit"],
     [id |-> "e5", label |-> "discount", kind |-> "percent", amount |-> Undefined,
      currency |-> "undefined", percent |-> Num(-5), allocation |-> "per-order"],
     [id |-> "e6", label |-> "setup", kind |-> "amount", amount |-> Num(30),
      currency |-> "undefined", percent |-> Undefined, allocation |-> "per-order"]}

\* req.body of compute
CalcBodies ==
    [baseCurrency : {"NGN", "USD"},
     usdRate : {Num(1500), Num(0), Num(-2), Infinity},
     products : SeqsUpTo(RawProducts, MaxProducts),
     extras : SeqsUpTo(RawExtras, MaxExtras),
     targetMarginPct : {Undefined, Num(20), Num(100), Num(150)}]

\* compute: res.json({ input: data, results })
\* The calculators keep nothing between calls: a behaviour follows one call.
compute(raw) ==
    /\ controller = "calc"
    /\ calc = NoCall
    /\ LET data    == ParseCalcInput(raw)
           results == computeCalculator(data)
       IN  calc' = [op |-> "compute", input |-> data, results |-> results]
    /\ UNCHANGED <<receipt, invoice, inflight, nextId, issued, controller, prisma_user, now, resetSuccess>>

\* The arguments of the direct calls of toBase.
Amounts == {Num(50), Num(0), Num(-5), Infinity, NaN}

Rates == {Num(1500), Num(1), Num(0), Num(-2), Infinity, NaN}

toBase_call(amount, curr, base, usdRate) ==
    /\ controller = "calc"
    /\ calc = NoCall
    /\ calc' = [op |-> "toBase", amount |-> amount, curr |-> curr, base |-> base,
                usdRate |-> usdRate, returned |-> toBase(amount, curr, base, usdRate)]
    /\ UNCHANGED <<receipt, invoice, inflight, nextId, issued, controller, prisma_user, now, resetSuccess>>

MaxItems == 2

\* The items and the percentages of the direct calls of computeInvoiceTotals.
RawItems ==
    {[id |-> "i1", description |-> "Print", quantity |-> Num(3), unitPrice |-> Num(200)],
     [id |-> "i2", description |-> "Return", quantity |-> Num(-2), unitPrice |-> Num(50)],
     [id |-> "i3", description |-> "Refund", quantity |-> Num(1), unitPrice |-> Num(-5)],
     [id |-> "i4", description |-> "Bulk", quantity |-> Infinity, unitPrice |-> Num(10)]}

InvoiceDatas ==
    {[RawInvoiceA EXCEPT !.items = it, !.discountPct = d, !.taxPct = t, !.shipping = sh] :
        it \in SeqsUpTo(RawItems, MaxItems),
        d \in {Undefined, Num(10), Num(-5), Num(150)},
        t \in {Undefined, Num(5), Num(-1)},
        sh \in {Undefined, Num(20), Num(-3), Infinity}}

\* computeInvoiceTotals(InvoiceData.parse(raw))
computeInvoiceTotals_call(raw) ==
    /\ controller = "calc"
    /\ calc = NoCall
    /\ LET data == ParseInvoiceData(raw)
       IN  calc' = [op |-> "computeInvoiceTotals", invoice |-> data,
                    totals |-> computeInvoiceTotals(data)]
    /\ UNCHANGED <<receipt, invoice, inflight, nextId, issued, controller, prisma_user, now, resetSuccess>>

CalcInit ==
    /\ controller = "calc"
    /\ receipt = {} /\ invoice = {} /\ issued = {}
    /\ inflight = EmptyBag
    /\ nextId = FirstId
    /\ calc = NoCall
    /\ prisma_user = RegisteredUsers
    /\ now = 0
    /\ resetSuccess = EmptyBag

\* The arguments of a call, while no call has been made.
BeforeCall(S) == IF calc = NoCall THEN S ELSE {}

CalcNext ==
    \/ \E raw \in BeforeCall(CalcBodies) : compute(raw)
    \/ \E amount \in BeforeCall(Amounts), curr \in {"undefined", "NGN", "USD"},
          base \in {"NGN", "USD"}, usdRate \in Rates :
             toBase_call(amount, curr, base, usdRate)
    \/ \E raw \in BeforeCall(InvoiceDatas) : computeInvoiceTotals_call(raw)

CalcSpec == CalcInit /\ [][CalcNext]_vars

(***************************************************************************)
(* Password reset: the requests to /request-reset and /reset-password of   *)
(* the auth router, and the passing of time.                               *)
(***************************************************************************)
\* The bodies of the requestReset requests.
RequestResetBodies ==
    {[email |-> e] : e \in {"u1@example.com", "U1@Example.com", "u2@example.com",
                            "nobody@example.com", "not-an-email"}}
    \cup {InvalidBody}

\* The bodies of the resetPassword requests: the tokens a behaviour can
\* generate and two that it cannot, with three passwords.
ResetPasswordBodies ==
    {[token |-> t, password |-> p] :
        t \in {"tok" \o ToString(i) : i \in FirstId..(FirstId + MaxTokens - 1)} \cup {"", "bogus"},
        p \in {"password1", "password2", "short"}}
    \cup {InvalidBody}

AuthInit ==
    /\ controller = "auth"
    /\ receipt = {} /\ invoice = {} /\ issued = {}
    /\ inflight = EmptyBag
    /\ nextId = FirstId
    /\ calc = NoCall
    /\ prisma_user = RegisteredUsers
    /\ now = 0
    /\ resetSuccess = EmptyBag

AuthNext ==
    \/ \E body \in RequestResetBodies : requestReset(body)
    \/ \E body \in ResetPasswordBodies : resetPassword(body)
    \/ resetPassword_update
    \/ tick

AuthSpec == AuthInit /\ [][AuthNext]_vars

(***************************************************************************)
(* Properties of the record store.                                         *)
(***************************************************************************)
MaxOf(S) == IF S = {} THEN 0 ELSE CHOOSE m \in S : \A x \in S : x <= m

ReceiptsOf(u) == {r \in receipt : r.userId = u}

InvoicesOf(u) == {r \in invoice : r.userId = u}

ReceiptNumbers(u) == {r.receiptNumber : r \in ReceiptsOf(u)}

InvoiceNumbers(u) == {r.invoiceNumber : r \in InvoicesOf(u)}

IssuedTo(kind, u) == {i \in issued : i.kind = kind /\ i.userId = u}

\* No row of the user and kind has been deleted so far.
NoReceiptDeleted(u) == \A i \in IssuedTo("receipt", u) : \E r \in receipt : r.id = i.id

NoInvoiceDeleted(u) == \A i \in IssuedTo("invoice", u) : \E r \in invoice : r.id = i.id

\* The request leaves, or joins, the requests in flight in this step.
Leaves(r) == CopiesIn(r, inflight') < CopiesIn(r, inflight)

Joins(r) == CopiesIn(r, inflight') > CopiesIn(r, inflight)

\* The rows that this step inserts.
InsertedReceipts == {row \in receipt' : \A old \in receipt : old.id # row.id}

InsertedInvoices == {row \in invoice' : \A old \in invoice : old.id # row.id}

\* C1: in every reachable state no two receipts of one user have the same receiptNumber
\* and no two invoices of one user have the same invoiceNumber.
C1_UniquePerUser ==
    /\ \A a, b \in receipt :
          (a.userId = b.userId /\ a.receiptNumber = b.receiptNumber) => a.id = b.id
    /\ \A a, b \in invoice :
          (a.userId = b.userId /\ a.invoiceNumber = b.invoiceNumber) => a.id = b.id

\* C1 witness: a create is between its read and its insert with a number that a row of
\* its user already carries (another create of the user got in first).
C1_Witness ==
    \E r \in Requests("receipts.create") :
        /\ Receipt_userId_receiptNumber_key(r.user, r.next)
        /\ \E row \in ReceiptsOf(r.user) : row.id >= FirstId

\* C2: for every user whose receipts were created and none deleted, the receiptNumbers
\* are exactly 1..N for the N receipts created.
C2_SequenceProperty ==
    \A u \in Users :
        NoReceiptDeleted(u) =>
            /\ ReceiptNumbers(u) = 1..Cardinality(IssuedTo("receipt", u))
            /\ Cardinality(ReceiptsOf(u)) = Cardinality(IssuedTo("receipt", u))

\* C2 witness: a user with two receipts created by the handler, none deleted.
C2_Witness ==
    \E u \in Users :
        /\ NoReceiptDeleted(u)
        /\ Cardinality({r \in ReceiptsOf(u) : r.id >= FirstId}) >= 2

C4_RetryBeforeFailure ==
    [][\A r \in BagToSet(inflight) :
          (/\ r.h \in {"receipts.create", "invoices.create"}
           /\ Leaves(r)
           /\ InsertedReceipts = {} /\ InsertedInvoices = {})
          => r.attempts > 1]_vars

\* C5: every stored row carries the number it was given when it was inserted, whatever
\* updates it has gone through.
C5_NumberImmutable ==
    /\ \A row \in receipt :
          \E i \in IssuedTo("receipt", row.userId) :
              i.id = row.id /\ i.number = row.receiptNumber
    /\ \A row \in invoice :
          \E i \in IssuedTo("invoice", row.userId) :
              i.id = row.id /\ i.number = row.invoiceNumber

\* C5 witness: a receipt or an invoice that an update has written (only update sets the
\* label "y") next to another row of the same user.
C5_Witness ==
    \/ \E row \in receipt : row.label = "y" /\ Cardinality(ReceiptsOf(row.userId)) >= 2
    \/ \E row \in invoice : row.label = "y" /\ Cardinality(InvoicesOf(row.userId)) >= 2

\* The numbers are 1..k for the k rows, and a row created later has a larger number.
GaplessInOrder(rows, field) ==
    /\ {r[field] : r \in rows} = 1..Cardinality(rows)
    /\ \A a, b \in rows : a.id < b.id => a[field] < b[field]

\* C6 as claimed: after any requests, deletes included, each user's numbers of one kind
\* are positive, gapless and increasing in creation order.
C6_GaplessAlways ==
    \A u \in Users :
        /\ GaplessInOrder(ReceiptsOf(u), "receiptNumber")
        /\ GaplessInOrder(InvoicesOf(u), "invoiceNumber")

\* C6 amended: each user's numbers of one kind are positive and pairwise distinct; while
\* none of the user's rows of the kind has been deleted they are gapless and increase in
\* creation order.
C6_GaplessUntilDelete ==
    \A u \in Users :
        /\ \A r \in ReceiptsOf(u) : r.receiptNumber >= 1
        /\ \A r \in InvoicesOf(u) : r.invoiceNumber >= 1
        /\ Cardinality(ReceiptNumbers(u)) = Cardinality(ReceiptsOf(u))
        /\ Cardinality(InvoiceNumbers(u)) = Cardinality(InvoicesOf(u))
        /\ NoReceiptDeleted(u) => GaplessInOrder(ReceiptsOf(u), "receiptNumber")
        /\ NoInvoiceDeleted(u) => GaplessInOrder(InvoicesOf(u), "invoiceNumber")

\* C6 witness: a user who created two invoices, updated one and deleted none.
C6_Witness ==
    \E u \in Users :
        /\ NoInvoiceDeleted(u)
        /\ Cardinality({r \in InvoicesOf(u) : r.id >= FirstId}) >= 2
        /\ \E r \in InvoicesOf(u) : r.label = "y"

ItemsOf(res) == {res.items[k] : k \in 1..Len(res.items)}

\* C7: list and getOne answer with rows of the requesting user only, and with no row at
\* all when the request has no authenticated user.
C7_ReadsScoped ==
    /\ \A u \in Requesters, q \in Queries :
          /\ \A item \in ItemsOf(receipts_list_res(u, q)) : item.userId = u
          /\ \A item \in ItemsOf(invoices_list_res(u, q)) : item.userId = u
    /\ \A u \in Requesters, id \in Ids :
          /\ \A item \in ItemsOf(receipts_getOne_res(u, id)) : item.userId = u
          /\ \A item \in ItemsOf(invoices_getOne_res(u, id)) : item.userId = u

\* C7 witness: both users own receipts; the list of u1 has a row and the getOne of u1 on
\* a receipt of u2 has none.
C7_Witness ==
    \E mine \in ReceiptsOf("u1"), other \in ReceiptsOf("u2") :
        /\ Len(receipts_list_res("u1", "").items) >= 1
        /\ receipts_getOne_res("u2", other.id).status = "200"
        /\ receipts_getOne_res("u1", other.id).items = <<>>

\* The user owns no row with this id: there is none, or it is another user's.
NoReceiptOf(u, id) == \A r \in receipt : ~(r.id = id /\ r.userId = u)

NoInvoiceOf(u, id) == \A r \in invoice : ~(r.id = id /\ r.userId = u)

\* The step changes or deletes the row.
Touched(row, table) == row \notin table

\* C8: getOne, update and remove answer the same 404 for an id that does not exist and
\* for an id of another user's row and go no further, and a row is changed or deleted
\* only by a request of its owner.
C8_NotFoundIdentical ==
    /\ [](\A u \in Users, id \in Ids :
            /\ NoReceiptOf(u, id) =>
                  /\ receipts_getOne_res(u, id) = Reply("404", "Receipt not found", <<>>)
                  /\ receipts_remove_res(u, id) = Reply("404", "Receipt not found", <<>>)
                  /\ \A raw \in ReceiptUpdateBodies \ {InvalidBody} :
                        receipts_update_res(u, id, raw)
                            = Reply("404", "Receipt not found", <<>>)
            /\ NoInvoiceOf(u, id) =>
                  /\ invoices_getOne_res(u, id) = Reply("404", "Invoice not found", <<>>)
                  /\ invoices_remove_res(u, id) = Reply("404", "Invoice not found", <<>>)
                  /\ \A raw \in InvoiceUpdateBodies \ {InvalidBody} :
                        invoices_update_res(u, id, raw)
                            = Reply("404", "Invoice not found", <<>>))
    /\ [][/\ \A row \in receipt :
                Touched(row, receipt') =>
                    \E r \in BagToSet(inflight) :
                        Leaves(r) /\ r.user = row.userId /\ r.id = row.id
          /\ \A row \in invoice :
                Touched(row, invoice') =>
                    \E r \in BagToSet(inflight) :
                        Leaves(r) /\ r.user = row.userId /\ r.id = row.id
          /\ \A r \in BagToSet(inflight') :
                (Joins(r) /\ r.h \in {"receipts.update", "receipts.remove"})
                    => ~NoReceiptOf(r.user, r.id)
          /\ \A r \in BagToSet(inflight') :
                (Joins(r) /\ r.h \in {"invoices.update", "invoices.remove"})
                    => ~NoInvoiceOf(r.user, r.id)]_vars

\* C8 witness: u2 owns a receipt that an update has written, and for u1 its id gets the
\* answer that an id of no row gets.
C8_Witness ==
    \E other \in ReceiptsOf("u2"), id \in Ids :
        /\ other.label = "y"
        /\ \A r \in receipt : r.id # id
        /\ receipts_getOne_res("u1", other.id) = receipts_getOne_res("u1", id)
        /\ receipts_getOne_res("u1", id).status = "404"

\* The rows and the requests of one user.
Mine(u) ==
    <<ReceiptsOf(u), InvoicesOf(u),
      [r \in {x \in BagToSet(inflight) : x.user = u} |-> CopiesIn(r, inflight)]>>

\* C9: a step changes the rows and requests of one user only; the number that a create
\* of a user would read is 1 + the maximum of that user's own rows; and a create fails on
\* the unique index only when a row of its own user carries its number.
C9_PartitionedByUser ==
    /\ [](\A u \in Users :
            /\ nextReceiptNumber(receipt_findLast(u)) = 1 + MaxOf(ReceiptNumbers(u))
            /\ nextInvoiceNumber(invoice_findLast(u)) = 1 + MaxOf(InvoiceNumbers(u)))
    /\ [][/\ \E a \in Users : \A u \in Users \ {a} : Mine(u)' = Mine(u)
          /\ \A r \in Requests("receipts.create") :
                (Leaves(r) /\ InsertedReceipts = {}) => r.next \in ReceiptNumbers(r.user)
          /\ \A r \in Requests("invoices.create") :
                (Leaves(r) /\ InsertedInvoices = {}) => r.next \in InvoiceNumbers(r.user)]_vars

\* C9 witness: both users have created an invoice and the two invoices carry the same
\* number.
C9_Witness ==
    \E a \in InvoicesOf("u1"), b \in InvoicesOf("u2") :
        /\ a.invoiceNumber = b.invoiceNumber
        /\ a.id >= FirstId /\ b.id >= FirstId

\* The payload or totals that a read is to answer with: the decoded text, or the stored
\* text itself when it does not decode.
Decoded(text) == IF "json" \in DOMAIN text THEN text.json ELSE text

\* C10: list and getOne of receipts and of invoices answer every row of the user, a text
\* that does not decode being returned as it is stored.
C10_DecodeFailureTolerated ==
    \A u \in Users :
        /\ \A row \in ReceiptsOf(u) :
              /\ receipts_getOne_res(u, row.id)
                    = Reply("200", "", <<[row EXCEPT !.payload = Decoded(@)]>>)
              /\ [row EXCEPT !.payload = Decoded(@)] \in ItemsOf(receipts_list_res(u, ""))
        /\ \A row \in InvoicesOf(u) :
              /\ invoices_getOne_res(u, row.id)
                    = Reply("200", "", <<[row EXCEPT !.payload = Decoded(@),
                                                    !.totals = Decoded(@)]>>)
              /\ [row EXCEPT !.payload = Decoded(@), !.totals = Decoded(@)]
                    \in ItemsOf(invoices_list_res(u, ""))

\* The numbers inside a receipt payload and inside an invoice payload.
ReceiptPayloadNumbers(payloadObj) ==
    {payloadObj.input.usdRate, payloadObj.input.targetMarginPct}
    \cup {payloadObj.input.products[i][f] :
             i \in 1..Len(payloadObj.input.products), f \in ProductNumFields}
    \cup {payloadObj.input.extras[i][f] :
             i \in 1..Len(payloadObj.input.extras), f \in {"amount", "percent"}}
    \cup {payloadObj.results[f] : f \in ResultsNumFields}
    \cup {payloadObj.results.productBreakdown[i][f] :
             i \in 1..Len(payloadObj.results.productBreakdown), f \in BreakdownNumFields}

InvoicePayloadNumbers(invoiceData) ==
    {invoiceData.discountPct, invoiceData.taxPct, invoiceData.shipping}
    \cup {invoiceData.items[i][f] : i \in 1..Len(invoiceData.items),
                                    f \in {"quantity", "unitPrice"}}

AllFinite(numbers) == \A x \in numbers : x = Undefined \/ x = JsonNull \/ isFinite(x)

\* What getOne answers after this step for the row, and what the step itself answers.
ReadAfter(res) == res.items[1]

\* C11 as claimed: after every create and update that writes a row, the payload (and
\* totals) that getOne decodes is the structured value that the write encoded.
C11_DecodesStructuredValue ==
    [][/\ \A r \in Requests("receipts.create"), row \in InsertedReceipts :
             Leaves(r) =>
                 ReadAfter(receipts_getOne_res(r.user, row.id)').payload
                     = receipts_create_payloadObj(r.body)
       /\ \A r \in Requests("receipts.update") :
             (Leaves(r) /\ \E row \in receipt : row.id = r.id) =>
                 ReadAfter(receipts_getOne_res(r.user, r.id)').payload
                     = receipts_update_payload(r.body, r.found)
       /\ \A r \in Requests("invoices.create"), row \in InsertedInvoices :
             Leaves(r) =>
                 /\ ReadAfter(invoices_getOne_res(r.user, row.id)').payload
                       = invoices_create_invoiceData(r)
                 /\ ReadAfter(invoices_getOne_res(r.user, row.id)').totals
                       = computeInvoiceTotals(invoices_create_invoiceData(r))
       /\ \A r \in Requests("invoices.update") :
             (Leaves(r) /\ \E row \in invoice : row.id = r.id) =>
                 /\ ReadAfter(invoices_getOne_res(r.user, r.id)').payload
                       = invoices_update_invoiceWithNumber(r.body, r.found)
                 /\ ReadAfter(invoices_getOne_res(r.user, r.id)').totals
                       = computeInvoiceTotals(
                             invoices_update_invoiceWithNumber(r.body, r.found))]_vars

\* C11 amended: after every create and update that writes a row, getOne answers with the
\* row that the write's response carried, payload and totals included; the payload is
\* the structured value that the write encoded when all the numbers in it are finite.
C11_ReadReturnsWhatWriteReturned ==
    [][/\ \A r \in Requests("receipts.create"), row \in InsertedReceipts :
             Leaves(r) =>
                 /\ receipts_getOne_res(r.user, row.id)'.items
                       = receipts_create_insert_res(r).items
                 /\ AllFinite(ReceiptPayloadNumbers(receipts_create_payloadObj(r.body)))
                       => ReadAfter(receipts_getOne_res(r.user, row.id)').payload
                             = receipts_create_payloadObj(r.body)
       /\ \A r \in Requests("receipts.update") :
             (Leaves(r) /\ \E row \in receipt : row.id = r.id) =>
                 /\ receipts_getOne_res(r.user, r.id)'.items
                       = receipts_update_update_res(r).items
                 /\ AllFinite(ReceiptPayloadNumbers(receipts_update_payload(r.body, r.found)))
                       => ReadAfter(receipts_getOne_res(r.user, r.id)').payload
                             = receipts_update_payload(r.body, r.found)
       /\ \A r \in Requests("invoices.create"), row \in InsertedInvoices :
             Leaves(r) =>
                 /\ invoices_getOne_res(r.user, row.id)'.items
                       = invoices_create_insert_res(r).items
                 /\ AllFinite(InvoicePayloadNumbers(invoices_create_invoiceData(r)))
                       => ReadAfter(invoices_getOne_res(r.user, row.id)').payload
                             = invoices_create_invoiceData(r)
       /\ \A r \in Requests("invoices.update") :
             (Leaves(r) /\ \E row \in invoice : row.id = r.id) =>
                 /\ invoices_getOne_res(r.user, r.id)'.items
                       = invoices_update_update_res(r).items
                 /\ AllFinite(InvoicePayloadNumbers(
                                  invoices_update_invoiceWithNumber(r.body, r.found)))
                       => ReadAfter(invoices_getOne_res(r.user, r.id)').payload
                             = invoices_update_invoiceWithNumber(r.body, r.found)]_vars

\* C11 witness: a stored receipt whose results hold a number that was not finite when it
\* was written (it decodes as null), and which getOne answers.
C11_Witness ==
    \E row \in receipt :
        /\ ~ParseThrows(row.payload)
        /\ JSONparse(row.payload).results.prodOverhead = JsonNull
        /\ receipts_getOne_res(row.userId, row.id).status = "200"

(***************************************************************************)
(* Properties of the calculators.                                          *)
(***************************************************************************)
\* The amount as the conversions count it: a non-finite amount counts as 0.
Counted(amount) == IF isFinite(amount) THEN amount ELSE Num(0)

ValidRate(usdRate) == isFinite(usdRate) /\ Greater(usdRate, Num(0))

\* C12: with a positive finite rate toBase returns the amount (a non-finite amount
\* counting as 0) unchanged when the source currency is absent or is the base currency,
\* amount * usdRate from USD to base NGN, and amount / usdRate from NGN to base USD.
C12_ToBaseConverts ==
    (calc.op = "toBase" /\ ValidRate(calc.usdRate)) =>
        LET a == Counted(calc.amount)
        IN  /\ (calc.curr = "undefined" \/ calc.curr = calc.base) => calc.returned = a
            /\ (calc.base = "NGN" /\ calc.curr = "USD")
                  => calc.returned = Times(a, calc.usdRate)
            /\ (calc.base = "USD" /\ calc.curr = "NGN")
                  => calc.returned = Over(a, calc.usdRate)

\* C12 witness: 50 NGN to base USD at 1500 is 1/30, a conversion that divides.
C12_Witness ==
    /\ calc.op = "toBase"
    /\ calc.amount = Num(50) /\ calc.curr = "NGN" /\ calc.base = "USD"
    /\ calc.usdRate = Num(1500)
    /\ calc.returned = Frac(1, 30)

\* The input with every extra stated in the base currency: nothing is converted.
AtFaceAmount(input) ==
    [input EXCEPT !.extras = [i \in 1..Len(input.extras) |->
                                 [input.extras[i] EXCEPT !.currency = input.baseCurrency]]]

\* C13: with a rate that is zero, negative or not finite the rate counts as 1: toBase
\* returns the amount unchanged for every pair of currencies, and computeCalculator
\* returns what it returns at rate 1 and what it returns with no extra converted.
C13_BadRateIsOne ==
    /\ (calc.op = "toBase" /\ ~ValidRate(calc.usdRate))
          => calc.returned = Counted(calc.amount)
    /\ (calc.op = "compute" /\ ~ValidRate(calc.input.usdRate))
          => /\ calc.results = computeCalculator([calc.input EXCEPT !.usdRate = Num(1)])
             /\ calc.results = computeCalculator(AtFaceAmount(calc.input))

\* C13 witness: at rate 0 and base NGN an extra of 50 USD per order is valued 50.
C13_Witness ==
    /\ calc.op = "compute"
    /\ calc.input.usdRate = Num(0) /\ calc.input.baseCurrency = "NGN"
    /\ Len(calc.input.extras) = 1
    /\ calc.input.extras[1].currency = "USD" /\ calc.input.extras[1].amount = Num(50)
    /\ calc.input.extras[1].allocation = "per-order"
    /\ calc.results.extrasTotal = Num(50)

\* The quantity of a product clamped to >= 0, and the total of a unit value over the
\* products: the sum of unit value x clamped quantity.
ClampedQuantity(p) == MathMax(Num(0), OrZero(p.quantity))

RECURSIVE TotalOver(_, _)
TotalOver(products, field) ==
    IF products = <<>> THEN Num(0)
    ELSE Plus(TotalOver(SubSeq(products, 1, Len(products) - 1), field),
              Times(OrZero(products[Len(products)][field]),
                    ClampedQuantity(products[Len(products)])))

\* The one product of the worked example.
ExampleProduct ==
    [id |-> "p1", name |-> "undefined", quantity |-> Num(10), unitSellPrice |-> Num(100),
     unitSupplierCost |-> Num(40), unitProductionOverhead |-> Num(10), markupPct |-> Num(0)]

\* C14: computeCalculator returns grossProfit = netRevenue - (supplier + prodOverhead +
\* extrasTotal); revenue, supplier and prodOverhead are the sums over the products of
\* unit value x clamped quantity; withholdingTax is 2% of a positive revenue; the example
\* product alone gives 1000, 400, 100, 20, 980, 480.
C14_GrossProfit ==
    calc.op = "compute" =>
        LET r == calc.results
        IN  /\ r.grossProfit
                  = Minus(r.netRevenue, Plus(Plus(r.supplier, r.prodOverhead), r.extrasTotal))
            /\ r.revenue = TotalOver(calc.input.products, "unitSellPrice")
            /\ r.supplier = TotalOver(calc.input.products, "unitSupplierCost")
            /\ r.prodOverhead = TotalOver(calc.input.products, "unitProductionOverhead")
            /\ r.withholdingTax = IF Greater(r.revenue, Num(0))
                                  THEN Times(r.revenue, Frac(2, 100)) ELSE Num(0)
            /\ (calc.input.products = <<ExampleProduct>> /\ calc.input.extras = <<>>)
                  => /\ r.revenue = Num(1000) /\ r.supplier = Num(400)
                     /\ r.prodOverhead = Num(100) /\ r.withholdingTax = Num(20)
                     /\ r.netRevenue = Num(980) /\ r.grossProfit = Num(480)

\* C14 witness: the example next to a product of negative quantity and an extra, which
\* lowers the gross profit below the example's 480.
C14_Witness ==
    /\ calc.op = "compute"
    /\ Len(calc.input.products) = 2
    /\ calc.input.products[1] = ExampleProduct
    /\ Less(calc.input.products[2].quantity, Num(0))
    /\ calc.results.revenue = Num(1000)
    /\ calc.input.extras # <<>>
    /\ Less(calc.results.grossProfit, Num(480))

NonNegative(x) == ~isNaN(x) /\ ~Less(x, Num(0))

\* C15 as claimed: whenever the revenue is >= 0, netRevenue is max(revenue x 0.98, 0).
C15_NetRevenueIs98Percent ==
    (calc.op = "compute" /\ NonNegative(calc.results.revenue)) =>
        calc.results.netRevenue
            = MathMax(Times(calc.results.revenue, Frac(98, 100)), Num(0))

\* C15 amended: netRevenue is max(revenue - withholdingTax, 0) with a withholdingTax of
\* revenue x 0.02 for a positive revenue and 0 otherwise; for a finite revenue >= 0 it
\* lies between 0 and the revenue, and for an infinite revenue it is NaN.
C15_NetRevenueIsRevenueLessTax ==
    calc.op = "compute" =>
        LET r   == calc.results
            tax == IF Greater(r.revenue, Num(0)) THEN Times(r.revenue, Frac(2, 100))
                   ELSE Num(0)
        IN  /\ r.netRevenue = MathMax(Minus(r.revenue, tax), Num(0))
            /\ (isFinite(r.revenue) /\ NonNegative(r.revenue))
                  => /\ NonNegative(r.netRevenue)
                     /\ ~Greater(r.netRevenue, r.revenue)
            /\ (~isFinite(r.revenue) /\ NonNegative(r.revenue)) => isNaN(r.netRevenue)

\* C15 witness: a product of infinite unit price makes the revenue infinite and the
\* netRevenue NaN.
C15_Witness ==
    /\ calc.op = "compute"
    /\ calc.results.revenue = Infinity
    /\ isNaN(calc.results.netRevenue)

\* The margin denominator (1 - targetMargin) x 0.98 of an input.
MarginDenominator(input) ==
    Times(Minus(Num(1), Over(MathMax(Num(0), OrZero(input.targetMarginPct)), Num(100))),
          Frac(98, 100))

\* The total clamped quantity of an input.
RECURSIVE TotalQuantity(_)
TotalQuantity(products) ==
    IF products = <<>> THEN Num(0)
    ELSE Plus(TotalQuantity(SubSeq(products, 1, Len(products) - 1)),
              ClampedQuantity(products[Len(products)]))

\* C16: with targetMarginPct >= 100 the requiredUnitPrice is 0; the margin denominator
\* is <= 0 exactly when targetMarginPct >= 100, and below 100 a positive production
\* cost over a positive quantity is priced with it.
C16_TargetMarginAtLeast100 ==
    calc.op = "compute" =>
        LET pct  == calc.input.targetMarginPct
            den  == MarginDenominator(calc.input)
            r    == calc.results
            cost == Plus(Plus(r.supplier, r.prodOverhead), r.extrasTotal)
            qty  == TotalQuantity(calc.input.products)
        IN  /\ ~Less(pct, Num(100)) => r.requiredUnitPrice = Num(0)
            /\ (Less(den, Num(0)) \/ den = Num(0)) <=> ~Less(pct, Num(100))
            /\ (Less(pct, Num(100)) /\ Less(Num(0), cost) /\ Less(Num(0), qty))
                  => r.requiredUnitPrice = Over(Over(cost, den), qty)

\* C16 witness: a target margin of exactly 100 with a positive production cost and
\* quantity, priced 0.
C16_Witness ==
    /\ calc.op = "compute"
    /\ calc.input.targetMarginPct = Num(100)
    /\ calc.results.supplier = Num(400)
    /\ Less(Num(0), TotalQuantity(calc.input.products))
    /\ calc.results.requiredUnitPrice = Num(0)

\* C17: with a total clamped quantity of 0 the profitPerUnit, netRevenuePerUnit and
\* requiredUnitPrice are all 0, and with a netRevenue of 0 the marginPct is 0.
C17_ZeroQuantityZeroPerUnit ==
    calc.op = "compute" =>
        LET r == calc.results
        IN  /\ TotalQuantity(calc.input.products) = Num(0)
                  => /\ r.profitPerUnit = Num(0)
                     /\ r.netRevenuePerUnit = Num(0)
                     /\ r.requiredUnitPrice = Num(0)
            /\ r.netRevenue = Num(0) => r.marginPct = Num(0)

\* C17 witness: one product of negative quantity under an extra cost: the gross profit
\* is negative and the target margin below 100, yet nothing is divided by the quantity.
C17_Witness ==
    /\ calc.op = "compute"
    /\ Len(calc.input.products) = 1
    /\ TotalQuantity(calc.input.products) = Num(0)
    /\ Less(calc.results.grossProfit, Num(0))
    /\ calc.input.targetMarginPct = Num(20)
    /\ calc.results.netRevenue = Num(0)
    /\ calc.results.profitPerUnit = Num(0)
    /\ calc.results.requiredUnitPrice = Num(0)
    /\ calc.results.marginPct = Num(0)

\* C18: with no products and no extras the revenue is 0, the marginPct is 0 and the
\* productBreakdown is empty.
C18_EmptyInput ==
    (calc.op = "compute" /\ calc.input.products = <<>> /\ calc.input.extras = <<>>) =>
        /\ calc.results.revenue = Num(0)
        /\ calc.results.marginPct = Num(0)
        /\ calc.results.productBreakdown = <<>>

\* C18 witness: the empty input computed under a rate that is not finite and a target
\* margin of 150.
C18_Witness ==
    /\ calc.op = "compute"
    /\ calc.input.products = <<>>
    /\ calc.input.extras = <<>>
    /\ calc.input.usdRate = Infinity
    /\ calc.input.targetMarginPct = Num(150)
    /\ calc.results.revenue = Num(0)
    /\ calc.results.productBreakdown = <<>>

\* The input with only the allocation of its i-th extra changed to the other one.
FlipAllocation(input, i) ==
    [input EXCEPT !.extras[i].allocation = IF @ = "per-unit" THEN "per-order" ELSE "per-unit"]

\* The input without its i-th extra.
WithoutExtra(input, i) ==
    [input EXCEPT !.extras = SubSeq(@, 1, i - 1) \o SubSeq(@, i + 1, Len(@))]

AmountContribution(extra, input) ==
    LET converted == toBase(MathMax(Num(0), OrZero(extra.amount)), extra.currency,
                            input.baseCurrency, input.usdRate)
        quantity  == TotalQuantity(input.products)
    IN  IF extra.allocation = "per-order" THEN converted
        ELSE IF quantity = Num(0) THEN Num(0)
        ELSE Times(converted, quantity)

\* C20: an amount extra adds its clamped, converted amount to extrasTotal once when it is
\* per-order and times the total clamped quantity when it is per-unit (0 when that
\* quantity is 0); 50 USD per unit, base NGN, rate 1500, quantity 10 adds 750000.
C20_AmountByAllocation ==
    calc.op = "compute" =>
        /\ \A i \in 1..Len(calc.input.extras) :
              LET extra == calc.input.extras[i]
              IN  extra.kind = "amount" =>
                     calc.results.extrasTotal
                        = Plus(computeCalculator(WithoutExtra(calc.input, i)).extrasTotal,
                               AmountContribution(extra, calc.input))
        /\ ( /\ calc.input.baseCurrency = "NGN"
             /\ calc.input.usdRate = Num(1500)
             /\ TotalQuantity(calc.input.products) = Num(10)
             /\ Len(calc.input.extras) = 1
             /\ calc.input.extras[1].kind = "amount"
             /\ calc.input.extras[1].amount = Num(50)
             /\ calc.input.extras[1].currency = "USD"
             /\ calc.input.extras[1].allocation = "per-unit" )
              => calc.results.extrasTotal = Num(750000)

\* C20 witness: the example, 50 USD per unit alone over a quantity of 10 at 1500, has
\* been computed.
C20_Witness ==
    /\ calc.op = "compute"
    /\ calc.input.baseCurrency = "NGN"
    /\ calc.input.usdRate = Num(1500)
    /\ TotalQuantity(calc.input.products) = Num(10)
    /\ Len(calc.input.extras) = 1
    /\ calc.input.extras[1].kind = "amount"
    /\ calc.input.extras[1].amount = Num(50)
    /\ calc.input.extras[1].allocation = "per-unit"
    /\ calc.results.extrasTotal = Num(750000)

\* A quantity, price, percentage or shipping as the totals count it: clamped at 0, and 0
\* when it is left out or not finite.
CountedNonNegative(x) == IF NumberIsFinite(x) THEN MathMax(x, Num(0)) ELSE Num(0)

RECURSIVE SubtotalOf(_)
SubtotalOf(items) ==
    IF items = <<>> THEN Num(0)
    ELSE Plus(SubtotalOf(Tail(items)),
              Times(CountedNonNegative(Head(items).quantity),
                    CountedNonNegative(Head(items).unitPrice)))

\* C21: computeInvoiceTotals returns subtotal = sum of max(quantity, 0) x max(unitPrice, 0),
\* discount = subtotal x max(discountPct, 0)/100, taxable = max(subtotal - discount, 0),
\* tax = taxable x max(taxPct, 0)/100 and total = taxable + tax + max(shipping, 0), a
\* value left out or not finite counting 0; one item of 3 x 200 with discount 10, tax 5
\* and shipping 20 gives 600, 60, 540, 27 and 587.
C21_InvoiceTotals ==
    calc.op = "computeInvoiceTotals" =>
        LET inv == calc.invoice
            t   == calc.totals
        IN  /\ t.subtotal = SubtotalOf(inv.items)
            /\ t.discount = Times(t.subtotal, Over(CountedNonNegative(inv.discountPct), Num(100)))
            /\ t.taxable = MathMax(Minus(t.subtotal, t.discount), Num(0))
            /\ t.tax = Times(t.taxable, Over(CountedNonNegative(inv.taxPct), Num(100)))
            /\ t.total = Plus(Plus(t.taxable, t.tax), CountedNonNegative(inv.shipping))
            /\ ( /\ Len(inv.items) = 1
                 /\ inv.items[1].quantity = Num(3) /\ inv.items[1].unitPrice = Num(200)
                 /\ inv.discountPct = Num(10) /\ inv.taxPct = Num(5)
                 /\ inv.shipping = Num(20) )
                  => /\ t.subtotal = Num(600) /\ t.discount = Num(60)
                     /\ t.taxable = Num(540) /\ t.tax = Num(27) /\ t.total = Num(587)

\* C21 witness: the totals of the example invoice have been computed.
C21_Witness ==
    /\ calc.op = "computeInvoiceTotals"
    /\ Len(calc.invoice.items) = 1
    /\ calc.invoice.items[1].quantity = Num(3)
    /\ calc.invoice.discountPct = Num(10)
    /\ calc.invoice.taxPct = Num(5)
    /\ calc.invoice.shipping = Num(20)
    /\ calc.totals.total = Num(587)

(***************************************************************************)
(* Properties of the stored snapshots.                                     *)
(***************************************************************************)
\* The rows whose payload the handlers wrote (a carried-over text is not JSON).
WrittenReceipts == {r \in receipt : ~ParseThrows(r.payload)}

WrittenInvoices == {r \in invoice : ~ParseThrows(r.payload) /\ ~ParseThrows(r.totals)}

\* The inputs that the create and update requests carry, parsed.
RequestInputs ==
    {ReceiptCreateSchema(b).input : b \in ReceiptCreateBodies \ {InvalidBody}}
    \cup {ParseCalcInput(b.input) :
             b \in {x \in ReceiptUpdateBodies \ {InvalidBody} : x.input # Undefined}}

DisplayNumber(n) ==
    LET digits == ToString(n)
        zeros  == IF n < 10 THEN "000" ELSE IF n < 100 THEN "00"
                  ELSE IF n < 1000 THEN "0" ELSE ""
    IN  "INV-" \o zeros \o digits

\* C23: the invoiceNumber string inside every stored invoice payload is 'INV-' followed
\* by the row's integer invoiceNumber padded to at least 4 digits, whatever string the
\* request body carried.
C23_PayloadNumberIsRowNumber ==
    \A r \in WrittenInvoices :
        /\ JSONparse(r.payload).invoiceNumber = DisplayNumber(r.invoiceNumber)
        /\ r.invoiceNumber = 2 => JSONparse(r.payload).invoiceNumber = "INV-0002"

\* C23 witness: the invoice numbered 2 rewritten by an update whose body carried the
\* string INV-0042.
C23_Witness ==
    \E r \in WrittenInvoices :
        /\ r.invoiceNumber = 2
        /\ JSONparse(r.payload).currency = "USD"
        /\ RawInvoiceB.invoiceNumber = "INV-0042"
        /\ JSONparse(r.payload).invoiceNumber = "INV-0002"

(***************************************************************************)
(* Properties of the numbers over time.                                    *)
(***************************************************************************)
\* The row that was given a number is still stored.
Live(i) ==
    IF i.kind = "receipt" THEN \E r \in receipt : r.id = i.id
    ELSE \E r \in invoice : r.id = i.id

\* Two rows of one user and kind were given the same number.
SameNumber(i, j) ==
    i.kind = j.kind /\ i.userId = j.userId /\ i.number = j.number /\ i.id # j.id

\* C24 as claimed: a number given to a receipt (or invoice) of a user is never given to
\* another record of that user, also after the first record has been deleted.
C24_NeverReused == \A i, j \in issued : ~SameNumber(i, j)

\* C24 amended: a number given to a record of a user is given to another record of that
\* user only when the first record has been deleted: of the records that were given
\* one number, at most the latest is stored.
C24_ReusedOnlyAfterDelete ==
    \A i, j \in issued : (SameNumber(i, j) /\ i.id < j.id) => ~Live(i)

\* C24 witness: a create has given a stored record the number of a deleted record.
C24_Witness ==
    \E i, j \in issued : SameNumber(i, j) /\ i.id < j.id /\ ~Live(i) /\ Live(j)

(***************************************************************************)
(* Properties of concurrent updates.                                       *)
(***************************************************************************)
ReceiptById(rows, id) == CHOOSE row \in rows : row.id = id

\* C25: of two concurrent updates of one receipt, one with a label only and one with an
\* input only, both take effect: the write of an update that carries no input leaves
\* the stored payload as another request wrote it, and the write of an update that
\* carries no label leaves the stored label.
C25_BothUpdatesTakeEffect ==
    [][\A r \in Requests("receipts.update") :
          (Leaves(r) /\ \E row \in receipt : row.id = r.id) =>
              LET old == ReceiptById(receipt, r.id)
                  new == ReceiptById(receipt', r.id)
              IN  /\ r.body.input = Undefined => new.payload = old.payload
                  /\ r.body.label = "undefined" => new.label = old.label]_vars

(***************************************************************************)
(* Properties of the requests that fail.                                   *)
(***************************************************************************)
\* The store already holds the number that the create is about to insert.
ReceiptNumberTaken(r) ==
    \E row \in receipt : row.userId = r.user /\ row.receiptNumber = r.next

InvoiceNumberTaken(r) ==
    \E row \in invoice : row.userId = r.user /\ row.invoiceNumber = r.next

StoreUnchanged == receipt' = receipt /\ invoice' = invoice

\* C26: a create that ends in an error leaves the record store as it was.  A request
\* without a user or with an invalid body is answered at once and never reaches the
\* transaction; an insert that meets its number in the store is answered with the
\* error and adds nothing; every other insert adds exactly its one row.
C26_FailedCreateChangesNothing ==
    [][/\ \A u \in Requesters, raw \in ReceiptCreateBodies :
             (receipts_create_res(u, raw) # Pending /\ receipts_create(u, raw))
                 => StoreUnchanged /\ inflight' = inflight
       /\ \A u \in Requesters, raw \in InvoiceCreateBodies :
             (invoices_create_res(u, raw) # Pending /\ invoices_create(u, raw))
                 => StoreUnchanged /\ inflight' = inflight
       /\ \A r \in BagToSet(inflight') :
             (Joins(r) /\ r.h \in {"receipts.create", "invoices.create"})
                 => r.user \in Users /\ r.body # InvalidBody /\ StoreUnchanged
       /\ \A r \in Requests("receipts.create") :
             Leaves(r) =>
                 /\ ReceiptNumberTaken(r) <=> receipts_create_insert_res(r).error = "P2002"
                 /\ receipts_create_insert_res(r).status # "201" => StoreUnchanged
                 /\ receipts_create_insert_res(r).status = "201"
                       => /\ receipt' = receipt \cup InsertedReceipts
                          /\ Cardinality(InsertedReceipts) = 1
                          /\ invoice' = invoice
       /\ \A r \in Requests("invoices.create") :
             Leaves(r) =>
                 /\ InvoiceNumberTaken(r) <=> invoices_create_insert_res(r).error = "P2002"
                 /\ invoices_create_insert_res(r).status # "201" => StoreUnchanged
                 /\ invoices_create_insert_res(r).status = "201"
                       => /\ invoice' = invoice \cup InsertedInvoices
                          /\ Cardinality(InsertedInvoices) = 1
                          /\ receipt' = receipt]_vars

\* C26 witness: a create whose number another create has inserted meanwhile: its insert
\* is answered with the uniqueness error.
C26_Witness ==
    \E r \in Requests("invoices.create") :
        /\ InvoiceNumberTaken(r)
        /\ invoices_create_insert_res(r).error = "P2002"
        /\ \E row \in invoice : row.id >= FirstId /\ row.invoiceNumber = r.next

(***************************************************************************)
(* Properties of the required unit price.                                  *)
(***************************************************************************)
ProductionCost(results) == Plus(Plus(results.supplier, results.prodOverhead), results.extrasTotal)

\* const netRevenue = Math.max(revenue - withholdingTax, 0), of a revenue.
NetOf(revenue) ==
    MathMax(Minus(revenue, IF Greater(revenue, Num(0)) THEN Times(revenue, WITHHOLDING_RATE)
                           ELSE Num(0)),
            Num(0))

\* The inputs of C27: no percent extra, a total quantity above 0, a production cost
\* above 0 and a target margin below 100.
PricedInput ==
    /\ calc.op = "compute"
    /\ \A i \in 1..Len(calc.input.extras) : calc.input.extras[i].kind # "percent"
    /\ Less(Num(0), TotalQuantity(calc.input.products))
    /\ Less(Num(0), ProductionCost(calc.results))
    /\ Less(calc.input.targetMarginPct, Num(100))

\* With every unit sold at the returned requiredUnitPrice, at the same costs, the
\* margin (netRevenue - productionCost) / netRevenue is max(0, targetMarginPct)/100.
MeetsTargetMargin ==
    LET revenue    == Times(calc.results.requiredUnitPrice, TotalQuantity(calc.input.products))
        netRevenue == NetOf(revenue)
        cost       == ProductionCost(calc.results)
    IN  Over(Minus(netRevenue, cost), netRevenue)
           = Over(MathMax(Num(0), calc.input.targetMarginPct), Num(100))

SignsOtherThanNetRevenue ==
    /\ calc.op = "compute" =>
          /\ NonNegative(calc.results.withholdingTax)
          /\ NonNegative(calc.results.requiredUnitPrice)
          /\ \A i \in 1..Len(calc.results.productBreakdown) :
                NonNegative(calc.results.productBreakdown[i].quantity)
    /\ calc.op = "computeInvoiceTotals" =>
          /\ NonNegative(calc.totals.subtotal)
          /\ NonNegative(calc.totals.taxable)
          /\ NonNegative(calc.totals.total)

C29_ClientEqualsServer ==
    /\ calc.op = "compute" =>
          LET client == CalculatorPage_results(calc.input)
              server == calc.results
          IN  /\ \A f \in ResultsNumFields : client[f] = server[f]
              /\ Len(client.productBreakdown) = Len(server.productBreakdown)
              /\ \A i \in 1..Len(server.productBreakdown), f \in BreakdownNumFields :
                    client.productBreakdown[i][f] = server.productBreakdown[i][f]
    /\ calc.op = "computeInvoiceTotals" => computeTotals(calc.invoice) = calc.totals

\* C29 witness: an amount extra with no currency computed for base NGN at 1500 beside an
\* extra in USD: the extra with no currency counts at its face amount of 30.
C29_Witness ==
    /\ calc.op = "compute"
    /\ calc.input.baseCurrency = "NGN"
    /\ calc.input.usdRate = Num(1500)
    /\ Len(calc.input.extras) = 2
    /\ calc.input.extras[1].kind = "amount"
    /\ calc.input.extras[1].currency = "undefined"
    /\ calc.input.extras[2].currency = "USD"
    /\ calc.input.extras[2].allocation = "per-order"
    /\ calc.results.extrasTotal = Num(75030)
    /\ CalculatorPage_results(calc.input).extrasTotal = Num(75030)

(***************************************************************************)
(* C30: password-reset tokens                                              *)
(***************************************************************************)
\* The row of the user a resetPassword request found.
UserById(id, table) == CHOOSE row \in table : row.id = id

\* C30: a password-reset token is single-use: whenever a resetPassword
\* request is answered { success: true }, no earlier request presenting the
\* same token was answered so, also when the requests run concurrently; and
\* after the answer the row's resetToken and resetTokenExpiresAt are null.
C30_TokenSingleUse ==
    [][\A r \in Requests("auth.resetPassword") :
          Leaves(r) =>
             /\ CopiesIn(r.body.token, resetSuccess') <= 1
             /\ UserById(r.id, prisma_user').resetToken = SqlNull
             /\ UserById(r.id, prisma_user').resetTokenExpiresAt = SqlNull]_vars

\* The second half of C30 alone: a successful reset leaves the token columns null.
C30_ClearedAfterReset ==
    [][\A r \in Requests("auth.resetPassword") :
          Leaves(r) =>
             /\ UserById(r.id, prisma_user').resetToken = SqlNull
             /\ UserById(r.id, prisma_user').resetTokenExpiresAt = SqlNull]_vars

\* The first half of C30 for requests that do not overlap: a token whose reset
\* was answered { success: true } is found by no later resetPassword request.
C30_UsedTokenNotFoundAgain ==
    \A t \in BagToSet(resetSuccess) : user_findFirst(sha256(t), now) = NoRow

\* Two resets with one token were both answered { success: true }.
C30_UsedTwice == \E t \in BagToSet(resetSuccess) : CopiesIn(t, resetSuccess) >= 2
====
